---- MODULE Spec2Model ----
(***************************************************************************)
(* A model of discore (src/discore): the configuration loader of utils.py  *)
(* (config_init, load_config), the case-insensitive prefix matcher         *)
(* (CaseInsensitiveStringView, Bot.get_context), the locale selection      *)
(* (set_locale) and the error handlers of bot.py and tree.py.              *)
(***************************************************************************)
EXTENDS Integers, Sequences, FiniteSets, TLC

VARIABLES
    \* ---- configuration loader (utils.py) ----
    fs,            \* the files that exist: path -> the dictionary yamlenv.load gives
    dotenv,        \* DISCORE_CONFIG as set by the .env file, or None
    environ,       \* os.environ['DISCORE_CONFIG'], a string as a sequence of characters, or None
    kwargs,        \* the keyword arguments config_init is called with
    config,        \* utils.config, without its key 'loaded'
    loaded,        \* utils.config.loaded
    cpc,           \* where config_init is
    config_files,  \* the local list config_files
    idx,           \* the position of the for loop in config_files
    arg,           \* the dictionary the running load_config was called with
    depth,         \* the number of load_config frames on the stack
    ret,           \* where the outermost load_config returns to
    merged,        \* history: per outermost load_config call, the names merged, in order
    calls,         \* the number of config_init calls made
    \* ---- Bot.get_context and the string view (bot.py, utils.py) ----
    content,            \* origin.content, a string as a sequence of characters
    author_is_bot,      \* origin.author.id == self.user.id
    command_prefix,     \* what get_prefix returns: a string or a list of strings
    case_insensitive,   \* config.case_insensitive
    strip_after_prefix, \* Bot.strip_after_prefix
    view,               \* the StringView: buffer, index, previous, end
    ctx,                \* the Context: invoked_with, prefix, command
    vpc,                \* where get_context is
    vcall,              \* the last call of view.skip_string: its number, argument and result
    \* ---- invocations, locale and error handlers (bot.py, tree.py, utils.py) ----
    log_commands,       \* config.log.commands
    alert_user,         \* config.log.alert_user
    log_channel,        \* config.log.channel: unset, or the id of a channel found or missing
    locale,             \* i18n's global setting 'locale'
    lcall,              \* the calls of set_locale: how many, how many direct, the last argument
    inv,                \* the invocations: context or interaction, error, position, effects
    \* ---- a call of one of the other functions (utils.py, bot.py) ----
    call,               \* the function called and its arguments
    result              \* what the call did and returned, once it has returned

cfgVars == <<fs, dotenv, environ, kwargs, config, loaded, cpc, config_files, idx,
             arg, depth, ret, merged, calls>>

viewVars == <<content, author_is_bot, command_prefix, case_insensitive,
              strip_after_prefix, view, ctx, vpc, vcall>>

errVars == <<log_commands, alert_user, log_channel, locale, lcall, inv>>

fnVars == <<call, result>>

vars == <<cfgVars, viewVars, errVars, fnVars>>

\* what the configuration loader and the handling of a message leave alone
notConfig == <<viewVars, errVars, fnVars>>
notView == <<cfgVars, errVars, fnVars>>
notError == <<cfgVars, content, author_is_bot, case_insensitive, strip_after_prefix,
              view, ctx, vpc, vcall, fnVars>>
notCall == <<cfgVars, viewVars, locale, lcall, inv>>

None == "None"

(***************************************************************************)
(* Bounds of the model.                                                    *)
(***************************************************************************)
MaxDepth == 3        \* nesting depth of the dictionaries of the deep-merge cases
MaxEnvLen == 3       \* length of the DISCORE_CONFIG string, in characters
MaxList == 2         \* length of a configuration_file list
RecursionLimit == 4  \* load_config frames before Python raises RecursionError
MaxCalls == 2        \* calls of config_init in one process
MaxContent == 3      \* length of a message's content, in characters
MaxPrefixes == 2     \* length of a list of command prefixes
MaxViewCalls == 2    \* calls of view.skip_string after get_context
MaxInvocations == 2  \* invocations of commands that run side by side
MaxLocaleCalls == 1  \* calls of set_locale made by user code
MaxFiles == 2        \* files in the cogs folder
MaxPieces == 2       \* pieces of a format string
MaxText == 5         \* characters of a text given to sanitize
MaxLimit == 5        \* the limit given to sanitize
MaxInitCalls == 3    \* calls of logging_init

(***************************************************************************)
(* Dictionaries.  A value is a scalar [s |-> v] or a mapping [m |-> d],    *)
(* d a function from keys to values.                                       *)
(***************************************************************************)
Scalar(v) == [s |-> v]
Map(d) == [m |-> d]
IsMap(v) == "m" \in DOMAIN v
Empty == [k \in {} |-> Scalar(None)]

Keys == {"a", "b"}
RecursionKey == "override_config"

\* dict.update: every key of other replaces the key of self
DictUpdateShallow(self, other) ==
    [k \in DOMAIN self \cup DOMAIN other |->
        IF k \in DOMAIN other THEN other[k] ELSE self[k]]

\* addict.Dict.update, as load_config uses it: a key of other replaces the
\* key of self unless both values are mappings, which are updated in turn.
RECURSIVE DictUpdate(_, _)
DictUpdate(self, other) ==
    [k \in DOMAIN self \cup DOMAIN other |->
        IF k \notin DOMAIN other THEN self[k]
        ELSE IF k \notin DOMAIN self \/ ~IsMap(self[k]) \/ ~IsMap(other[k])
             THEN other[k]
             ELSE Map(DictUpdate(self[k].m, other[k].m))]

\* a pop that leaves the key in place
PopKeeps(d, key) == d

\* dict.pop(key)
Pop(d, key) == [k \in DOMAIN d \ {key} |-> d[k]]

(***************************************************************************)
(* Strings and paths.  A string is a sequence of characters; the files of  *)
(* the model have one-character names, and the three fixed files have one  *)
(* name each.                                                              *)
(***************************************************************************)
DefaultFile == "default_config.yml"
ConfigFile == "config.yml"
OverrideFile == "override.config.yml"
UserFiles == {"x", "y"}
MissingFile == "z"
Configuration == "<configuration>"

\* the path a string of the model's characters spells
PathOf(str) == IF Len(str) = 1 THEN str[1] ELSE IF str = <<>> THEN "" ELSE "?"

\* str.split(':')
RECURSIVE SplitFrom(_, _, _)
SplitFrom(str, i, cur) ==
    IF i > Len(str) THEN <<cur>>
    ELSE IF str[i] = ":" THEN <<cur>> \o SplitFrom(str, i + 1, <<>>)
    ELSE SplitFrom(str, i + 1, Append(cur, str[i]))
Split(str) == SplitFrom(str, 1, <<>>)

MapSeq(f(_), sq) == [i \in 1..Len(sq) |-> f(sq[i])]

(***************************************************************************)
(* config_init (utils.py:154-195).                                         *)
(***************************************************************************)
NoValue == [set |-> FALSE, v |-> <<>>]
StrValue(str) == [set |-> TRUE, v |-> str]
NoArg == [kind |-> "none", v |-> <<>>]
NoDict == [present |-> FALSE, d |-> Empty]

\* load_dotenv(dotenv_path=env_file): a variable of the file is set unless
\* the environment already holds it
LoadDotenv(env_file, env, file) ==
    IF env_file /\ ~env.set /\ file.set THEN file ELSE env

\* the paths DISCORE_CONFIG adds to config_files (utils.py:181-186)
EnvConfigFiles(env) ==
    IF ~env.set THEN <<>>
    ELSE IF \E i \in 1..Len(env.v) : env.v[i] = ":"
         THEN MapSeq(PathOf, Split(env.v))
         ELSE <<PathOf(env.v)>>

\* the paths the configuration_file argument adds (utils.py:174-179)
KwargsConfigFiles(cf) == IF cf.kind = "none" THEN <<>> ELSE cf.v

LocalFiles(present) ==
    (IF ConfigFile \in present THEN <<ConfigFile>> ELSE <<>>)
    \o (IF OverrideFile \in present THEN <<OverrideFile>> ELSE <<>>)

ConfigFilesEnvFirst(present, cf, env) ==
    <<DefaultFile>> \o LocalFiles(present) \o EnvConfigFiles(env) \o KwargsConfigFiles(cf)

\* the list config_files when the for loop starts (utils.py:166-186)
ConfigFiles(present, cf, env) ==
    <<DefaultFile>> \o LocalFiles(present) \o KwargsConfigFiles(cf) \o EnvConfigFiles(env)

\* config_init called again: `if config.loaded: return`
ConfigInitLoaded ==
    /\ UNCHANGED notConfig
    /\ cpc = "done"
    /\ loaded
    /\ calls < MaxCalls
    /\ calls' = calls + 1
    /\ UNCHANGED <<fs, dotenv, environ, kwargs, config, loaded, cpc, config_files,
                   idx, arg, depth, ret, merged>>

\* config_init up to its for loop
ConfigInit ==
    /\ UNCHANGED notConfig
    /\ cpc = "call"
    /\ ~loaded
    /\ calls' = calls + 1
    /\ environ' = LoadDotenv(kwargs.env_file, environ, dotenv)
    /\ config_files' = ConfigFiles(DOMAIN fs, kwargs.configuration_file, environ')
    /\ idx' = 1
    /\ cpc' = "for"
    /\ UNCHANGED <<fs, dotenv, kwargs, config, loaded, arg, depth, ret, merged>>

\* one turn of `for config_file in config_files`: open the file and call load_config
ForOpen ==
    /\ UNCHANGED notConfig
    /\ cpc = "for"
    /\ idx <= Len(config_files)
    /\ config_files[idx] \in DOMAIN fs
    /\ arg' = [name |-> config_files[idx], d |-> fs[config_files[idx]]]
    /\ depth' = 1
    /\ ret' = "for"
    /\ idx' = idx + 1
    /\ cpc' = "load"
    /\ UNCHANGED <<fs, dotenv, environ, kwargs, config, loaded, config_files, merged, calls>>

\* open() raises FileNotFoundError out of config_init
ForOpenRaises ==
    /\ UNCHANGED notConfig
    /\ cpc = "for"
    /\ idx <= Len(config_files)
    /\ config_files[idx] \notin DOMAIN fs
    /\ cpc' = "raised"
    /\ UNCHANGED <<fs, dotenv, environ, kwargs, config, loaded, config_files, idx,
                   arg, depth, ret, merged, calls>>

\* after the loop: `if 'configuration' in kwargs: load_config(kwargs.pop(...))`
ForEnd ==
    /\ UNCHANGED notConfig
    /\ cpc = "for"
    /\ idx > Len(config_files)
    /\ IF kwargs.configuration.present
       THEN /\ arg' = [name |-> Configuration, d |-> kwargs.configuration.d]
            /\ depth' = 1
            /\ ret' = "end"
            /\ cpc' = "load"
       ELSE /\ cpc' = "end"
            /\ UNCHANGED <<arg, depth, ret>>
    /\ UNCHANGED <<fs, dotenv, environ, kwargs, config, loaded, config_files, idx, merged,
                   calls>>

\* `config.loaded = True`
ConfigInitEnd ==
    /\ UNCHANGED notConfig
    /\ cpc = "end"
    /\ loaded' = TRUE
    /\ cpc' = "done"
    /\ UNCHANGED <<fs, dotenv, environ, kwargs, config, config_files, idx, arg, depth,
                   ret, merged, calls>>

(***************************************************************************)
(* load_config (utils.py:198-212), one action per call frame.              *)
(***************************************************************************)
\* the history of merges: a frame at depth 1 opens a new entry
Record(log, d, name) ==
    IF d = 1 THEN Append(log, <<name>>)
    ELSE [log EXCEPT ![Len(log)] = Append(@, name)]

Updated == DictUpdate(config, arg.d)

\* a load_config that never follows an override
ReturnsAlways(cfg) == TRUE

\* `if not recursion_key or recursion_key not in config: return`
Returns(cfg) == RecursionKey \notin DOMAIN cfg

\* load_config returns, and with it every frame below
LoadConfigReturn ==
    /\ UNCHANGED notConfig
    /\ cpc = "load"
    /\ Returns(Updated)
    /\ config' = Updated
    /\ merged' = Record(merged, depth, arg.name)
    /\ depth' = 0
    /\ cpc' = ret
    /\ UNCHANGED <<fs, dotenv, environ, kwargs, loaded, config_files, idx, arg, ret, calls>>

\* `override = config.pop(recursion_key)`, open it and call load_config again
LoadConfigRecurse ==
    /\ UNCHANGED notConfig
    /\ cpc = "load"
    /\ ~Returns(Updated)
    /\ LET override == Updated[RecursionKey].s IN
        /\ override \in DOMAIN fs
        /\ depth < RecursionLimit
        /\ arg' = [name |-> override, d |-> fs[override]]
    /\ config' = Pop(Updated, RecursionKey)
    /\ merged' = Record(merged, depth, arg.name)
    /\ depth' = depth + 1
    /\ UNCHANGED <<fs, dotenv, environ, kwargs, loaded, cpc, config_files, idx, ret, calls>>

\* the open() of the override raises FileNotFoundError, or the call exceeds
\* the recursion limit: the exception leaves load_config and config_init
LoadConfigRaises ==
    /\ UNCHANGED notConfig
    /\ cpc = "load"
    /\ ~Returns(Updated)
    /\ \/ Updated[RecursionKey].s \notin DOMAIN fs
       \/ depth >= RecursionLimit
    /\ config' = Pop(Updated, RecursionKey)
    /\ merged' = Record(merged, depth, arg.name)
    /\ cpc' = "raised"
    /\ UNCHANGED <<fs, dotenv, environ, kwargs, loaded, config_files, idx, arg, depth,
                   ret, calls>>

NextConfig ==
    \/ ConfigInit
    \/ ConfigInitLoaded
    \/ ForOpen
    \/ ForOpenRaises
    \/ ForEnd
    \/ ConfigInitEnd
    \/ LoadConfigReturn
    \/ LoadConfigRecurse
    \/ LoadConfigRaises

(***************************************************************************)
(* The initial states: the files, the environment and the arguments.       *)
(* Every scalar of a file is the file's own name, so that a value of       *)
(* config tells which source it came from.                                 *)
(***************************************************************************)
RECURSIVE SeqsUpTo(_, _)
SeqsUpTo(S, n) ==
    IF n = 0 THEN {<<>>}
    ELSE LET shorter == SeqsUpTo(S, n - 1) IN
         shorter \cup {Append(sq, e) : sq \in shorter, e \in S}

Paths == SeqsUpTo(Keys, MaxDepth) \ {<<>>}
IsPrefix(p, q) == Len(p) < Len(q) /\ SubSeq(q, 1, Len(p)) = p
PrefixFree(P) == \A p \in P, q \in P : ~IsPrefix(p, q)
\* the shapes of a dictionary: the sets of at most two paths to its scalars
Shapes == {P \in {{p, q} : p \in Paths, q \in Paths} : PrefixFree(P)} \cup {{}}
FlatShapes == {{}, {<<"a">>}}

RECURSIVE Tree(_, _)
Tree(P, tag) ==
    [k \in {p[1] : p \in P} |->
        IF <<k>> \in P THEN Scalar(tag)
        ELSE Map(Tree({Tail(p) : p \in {q \in P : q[1] = k}}, tag))]

\* the dictionary of a source: its shape, and the override it names
Dict(P, tag, override) ==
    IF override = None THEN Tree(P, tag)
    ELSE DictUpdate(Tree(P, tag), [k \in {RecursionKey} |-> Scalar(override)])

InitCommon ==
    /\ config = Empty
    /\ loaded = FALSE
    /\ cpc = "call"
    /\ config_files = <<>>
    /\ idx = 0
    /\ arg = [name |-> None, d |-> Empty]
    /\ depth = 0
    /\ ret = None
    /\ merged = <<>>
    /\ calls = 0

FlatDict(tag, override) == Dict({<<"a">>}, tag, override)
Kwargs(ef, cf, cd) == [env_file |-> ef, configuration_file |-> cf, configuration |-> cd]
StrArg(p) == [kind |-> "str", v |-> <<p>>]
ListArg(l) == [kind |-> "list", v |-> l]
DictArg(d) == [present |-> TRUE, d |-> d]

\* the order of the sources: flat dictionaries that define the key or not,
\* every form of the configuration_file argument and of DISCORE_CONFIG
InitOrder ==
    /\ \E present \in SUBSET {ConfigFile, OverrideFile},
          defines \in [{ConfigFile, OverrideFile} -> FlatShapes] :
          fs = [p \in {DefaultFile} \cup present \cup UserFiles |->
                   IF p \in UserFiles \cup {DefaultFile} THEN FlatDict(p, None)
                   ELSE Dict(defines[p], p, None)]
    /\ \E ef \in BOOLEAN :
          /\ \/ /\ environ \in {StrValue(str) : str \in SeqsUpTo({"x", "y", ":"}, MaxEnvLen)}
                /\ dotenv = NoValue
                /\ ef
             \/ /\ environ \in {NoValue, StrValue(<<"x">>)}
                /\ dotenv \in {NoValue, StrValue(<<"y">>)}
          /\ \E cf \in {NoArg} \cup {StrArg(p) : p \in UserFiles}
                       \cup {ListArg(l) : l \in SeqsUpTo(UserFiles, MaxList)},
                cd \in {NoDict} \cup {DictArg(Dict(P, Configuration, None)) : P \in FlatShapes} :
                kwargs = Kwargs(ef, cf, cd)
    /\ InitCommon

\* the deep merge: the packaged defaults and the configuration argument,
\* one of every shape and the other of every shape with one scalar
InitDeep ==
    /\ \E P \in Shapes, Q \in Shapes :
          /\ Cardinality(P) <= 1 \/ Cardinality(Q) <= 1
          /\ fs = [p \in {DefaultFile} \cup UserFiles |->
                      IF p = DefaultFile THEN Dict(P, p, None) ELSE FlatDict(p, None)]
          /\ kwargs = Kwargs(TRUE, NoArg, DictArg(Dict(Q, Configuration, None)))
    /\ environ = NoValue
    /\ dotenv = NoValue
    /\ InitCommon

\* the override chains: every source may name x, y or a file that is missing
InitChain ==
    /\ \E present \in SUBSET {ConfigFile},
          names \in [{DefaultFile, ConfigFile} \cup UserFiles ->
                        {None, MissingFile} \cup UserFiles] :
          /\ names[DefaultFile] \in {None, "y"}
          /\ fs = [p \in {DefaultFile} \cup present \cup UserFiles |-> FlatDict(p, names[p])]
    /\ environ \in {NoValue, StrValue(<<"y">>), StrValue(<<MissingFile>>)}
    /\ dotenv = NoValue
    /\ \E cf \in {NoArg, StrArg("x"), ListArg(<<"x", "y">>)},
          cd \in {NoDict} \cup {DictArg(FlatDict(Configuration, n)) :
                                   n \in {None, MissingFile} \cup UserFiles} :
          kwargs = Kwargs(TRUE, cf, cd)
    /\ InitCommon

\* no message is being handled
(***************************************************************************)
(* Properties of the configuration loader.                                 *)
(***************************************************************************)
\* the dictionary a merged name stands for
SourceDict(name) == IF name = Configuration THEN kwargs.configuration.d ELSE fs[name]

Names(name) == RecursionKey \in DOMAIN SourceDict(name)
Override(name) == SourceDict(name)[RecursionKey].s

\* the sources in the order the documentation gives, DISCORE_CONFIG being
\* a colon-separated list
SourceOrder ==
    <<DefaultFile>>
    \o (IF ConfigFile \in DOMAIN fs THEN <<ConfigFile>> ELSE <<>>)
    \o (IF OverrideFile \in DOMAIN fs THEN <<OverrideFile>> ELSE <<>>)
    \o kwargs.configuration_file.v
    \o (IF environ.set THEN MapSeq(PathOf, Split(environ.v)) ELSE <<>>)
    \o (IF kwargs.configuration.present THEN <<Configuration>> ELSE <<>>)

Heads == [i \in 1..Len(merged) |-> merged[i][1]]

RECURSIVE Flatten(_)
Flatten(log) == IF log = <<>> THEN <<>> ELSE Head(log) \o Flatten(Tail(log))

\* the value sv of a source is what config holds: equal when it is a scalar,
\* and for a mapping every key of it holds in config's mapping
RECURSIVE Holds(_, _)
Holds(cv, sv) ==
    IF IsMap(sv)
    THEN /\ IsMap(cv)
         /\ \A k \in DOMAIN sv.m : k \in DOMAIN cv.m /\ Holds(cv.m[k], sv.m[k])
    ELSE cv = sv

LastDefining(k) ==
    LET flat == Flatten(merged)
        defs == {i \in 1..Len(flat) : k \in DOMAIN SourceDict(flat[i])}
    IN  IF defs = {} THEN None ELSE flat[CHOOSE i \in defs : \A j \in defs : j <= i]

\* C1: after config_init the sources were merged in the order default_config.yml,
\* config.yml, override.config.yml, the configuration_file argument,
\* DISCORE_CONFIG (colon-separated), the configuration argument, and every key
\* some source defines holds the value of the last merged source defining it.
C1_MergeOrder ==
    cpc = "done" =>
        /\ Heads = SourceOrder
        /\ \A k \in Keys :
              LET last == LastDefining(k) IN
              IF last = None THEN k \notin DOMAIN config
              ELSE k \in DOMAIN config /\ Holds(config[k], SourceDict(last)[k])

\* config_init has returned with a key that the defaults, a file of the
\* configuration_file list, a file of DISCORE_CONFIG and the configuration
\* argument all define, and it holds the configuration argument's value
C1_Witness ==
    /\ cpc = "done"
    /\ kwargs.configuration_file.kind = "list"
    /\ Len(merged) >= 5
    /\ environ.set /\ Len(Split(environ.v)) = 2
    /\ "a" \in DOMAIN fs[DefaultFile]
    /\ kwargs.configuration.present /\ "a" \in DOMAIN kwargs.configuration.d
    /\ config["a"] = Scalar(Configuration)

\* the value at a path of a dictionary, None where the path leads nowhere
RECURSIVE Get(_, _)
Get(d, p) ==
    IF p[1] \notin DOMAIN d THEN Scalar(None)
    ELSE IF Len(p) = 1 THEN d[p[1]]
    ELSE IF IsMap(d[p[1]]) THEN Get(d[p[1]].m, Tail(p))
    ELSE Scalar(None)

Defined(d, p) == Get(d, p) # Scalar(None)
\* the source sets the path or replaces a mapping above it by a scalar
Touches(d, p) ==
    \E n \in 1..Len(p) :
        /\ Defined(d, SubSeq(p, 1, n))
        /\ n = Len(p) \/ ~IsMap(Get(d, SubSeq(p, 1, n)))
IsLeaf(d, p) == Defined(d, p) /\ ~IsMap(Get(d, p))

\* C2: a merge by load_config keeps, at every depth, each key the source does
\* not define, sets each key the source defines to the source's value, and
\* adds nothing else.
C2_DeepMerge ==
    [][cpc = "load" =>
        \A p \in Paths :
            /\ (Defined(config, p) /\ ~Touches(arg.d, p)) => Get(config', p) = Get(config, p)
            /\ IsLeaf(arg.d, p) => Get(config', p) = Get(arg.d, p)
            /\ IsLeaf(config', p) => (IsLeaf(config, p) \/ IsLeaf(arg.d, p))]_vars

\* config holds, under one mapping two levels down, a key only the defaults
\* define next to a key the configuration argument defines
C2_Witness ==
    \E p \in Paths, q \in Paths :
        /\ Len(p) = 3 /\ Len(q) = 3
        /\ SubSeq(p, 1, 2) = SubSeq(q, 1, 2)
        /\ Get(config, p) = Scalar(DefaultFile)
        /\ Get(config, q) = Scalar(Configuration)

\* the files a source's override chain names, in order
RECURSIVE Chain(_)
Chain(name) == IF Names(name) THEN <<name>> \o Chain(Override(name)) ELSE <<name>>

\* C3: whenever config_init is between two sources or has returned, every
\* source merged so far was followed by the whole chain of overrides it names,
\* each file on top of the one naming it, and config holds no override_config.
C3_OverrideChain ==
    cpc \in {"for", "end", "done"} =>
        /\ RecursionKey \notin DOMAIN config
        /\ \A i \in 1..Len(merged) : merged[i] = Chain(merged[i][1])

\* config_init has returned after a source named x, x named y and a further
\* source was merged after them
C3_Witness ==
    /\ cpc = "done"
    /\ \E i \in 1..Len(merged) : Len(merged[i]) = 3 /\ i < Len(merged)

\* the chain of a source names existing files only and none of them twice
RECURSIVE ChainEnds(_, _)
ChainEnds(name, seen) ==
    /\ name \notin seen
    /\ name = Configuration \/ name \in DOMAIN fs
    /\ Names(name) => ChainEnds(Override(name), seen \cup {name})

NoRepeat(sq) == \A i \in 1..Len(sq), j \in 1..Len(sq) : sq[i] = sq[j] => i = j

\* C4: when every source exists and its override references form a chain that
\* ends, config_init reaches config.loaded = True, each load_config having
\* merged each file of its chain exactly once.
C4_Terminates ==
    (cpc = "for" /\ idx = 1 /\ \A i \in 1..Len(SourceOrder) : ChainEnds(SourceOrder[i], {}))
        ~> (cpc = "done" /\ loaded /\ Len(merged) = Len(SourceOrder)
            /\ \A i \in 1..Len(merged) : NoRepeat(merged[i]) /\ merged[i] = Chain(merged[i][1]))

\* config_init has returned after a load_config that merged a chain of three files
C4_Witness ==
    /\ cpc = "done"
    /\ loaded
    /\ \E i \in 1..Len(merged) : Len(merged[i]) = 3 /\ NoRepeat(merged[i])

(***************************************************************************)
(* The string view (discord.ext.commands.view.StringView and               *)
(* utils.CaseInsensitiveStringView, utils.py:679-690).                     *)
(***************************************************************************)
Chars == {"a", "A", "!", "p", " "}
\* str.lower and str.isspace on the characters of the model
LowerChar(c) == IF c = "A" THEN "a" ELSE c
Lower(str) == [i \in 1..Len(str) |-> LowerChar(str[i])]
IsSpace(c) == c = " "

Min(i, j) == IF i <= j THEN i ELSE j
\* the Python slice str[i:j], 0 <= i <= j
Slice(str, i, j) == SubSeq(str, i + 1, Min(j, Len(str)))
\* str.startswith(p)
StartsWith(str, p) == Len(p) <= Len(str) /\ SubSeq(str, 1, Len(p)) = p

StringView(buffer) == [buffer |-> buffer, index |-> 0, previous |-> 0, end |-> Len(buffer)]

\* StringView.skip_string, which compares the slice as it is
SkipStringBase(v, string) ==
    IF Slice(v.buffer, v.index, v.index + Len(string)) = string
    THEN [view |-> [v EXCEPT !.previous = v.index, !.index = v.index + Len(string)],
          result |-> TRUE]
    ELSE [view |-> v, result |-> FALSE]

\* CaseInsensitiveStringView.skip_string
SkipString(v, string) ==
    IF Lower(Slice(v.buffer, v.index, v.index + Len(string))) = Lower(string)
    THEN [view |-> [v EXCEPT !.previous = v.index, !.index = v.index + Len(string)],
          result |-> TRUE]
    ELSE [view |-> v, result |-> FALSE]

\* the number of characters from index on that are (not) whitespace
RECURSIVE Run(_, _, _)
Run(v, pos, space) ==
    IF v.index >= v.end \/ v.index + pos >= Len(v.buffer) THEN pos
    ELSE IF IsSpace(v.buffer[v.index + pos + 1]) # space THEN pos
    ELSE Run(v, pos + 1, space)

\* StringView.skip_ws
SkipWs(v) == [v EXCEPT !.previous = v.index, !.index = v.index + Run(v, 0, TRUE)]

\* StringView.get_word
GetWord(v) ==
    LET pos == Run(v, 0, FALSE) IN
    [view |-> [v EXCEPT !.previous = v.index, !.index = v.index + pos],
     result |-> Slice(v.buffer, v.index, v.index + pos)]

(***************************************************************************)
(* Bot.get_context (bot.py:197-296) for a message.                         *)
(***************************************************************************)
Absent == [set |-> FALSE, v |-> <<>>]
Some(x) == [set |-> TRUE, v |-> x]

\* the names of Bot.all_commands, and all_commands.get(name)
AllCommands == {<<"p">>, <<"a">>}
AllCommandsGet(name) == IF name \in AllCommands THEN Some(name) ELSE Absent

\* string_view_cls(...).skip_string: the class is chosen by config.case_insensitive
ViewSkipString(ci, v, string) == IF ci THEN SkipString(v, string) ELSE SkipStringBase(v, string)

\* discord.utils.find(view.skip_string, prefix): the first prefix skipped
RECURSIVE Find(_, _, _)
Find(ci, v, prefixes) ==
    IF prefixes = <<>> THEN [view |-> v, found |-> Absent]
    ELSE LET r == ViewSkipString(ci, v, Head(prefixes)) IN
         IF r.result THEN [view |-> r.view, found |-> Some(Head(prefixes))]
         ELSE Find(ci, v, Tail(prefixes))

\* `origin.content.startswith(tuple(prefix))` (bot.py:266)
PrefixStarts(ci, str, prefixes) ==
    \E i \in 1..Len(prefixes) : StartsWith(str, prefixes[i])

\* isinstance(prefix, str), for a prefix [str |-> s] or [list |-> l]
IsStr(prefix) == "str" \in DOMAIN prefix

NoContext == [invoked_with |-> Absent, prefix |-> Absent, command |-> Absent]

\* get_context up to `await self.get_prefix(origin)`
GetContextView ==
    /\ UNCHANGED notView
    /\ vpc = "call"
    /\ view' = StringView(content)
    /\ ctx' = NoContext
    /\ vpc' = IF author_is_bot THEN "returned" ELSE "prefix"
    /\ UNCHANGED <<content, author_is_bot, command_prefix, case_insensitive,
                   strip_after_prefix, vcall>>

\* get_context from the prefix on: skip it, skip the blanks, read the invoker
GetContextInvoker ==
    /\ UNCHANGED notView
    /\ vpc = "prefix"
    /\ LET ci == case_insensitive
           skipped ==
               IF IsStr(command_prefix)
               THEN LET r == ViewSkipString(ci, view, command_prefix.str) IN
                    [view |-> r.view,
                     found |-> IF r.result THEN Some(command_prefix.str) ELSE Absent,
                     go |-> r.result]
               ELSE IF PrefixStarts(ci, content, command_prefix.list)
                    THEN LET r == Find(ci, view, command_prefix.list) IN
                         [view |-> r.view, found |-> r.found, go |-> TRUE]
                    ELSE [view |-> view, found |-> Absent, go |-> FALSE]
           stripped == IF strip_after_prefix THEN SkipWs(skipped.view) ELSE skipped.view
           word == GetWord(stripped)
       IN  IF skipped.go
           THEN /\ view' = word.view
                /\ ctx' = [invoked_with |-> Some(word.result),
                           prefix |-> skipped.found,
                           command |-> AllCommandsGet(IF ci THEN Lower(word.result)
                                                            ELSE word.result)]
           ELSE /\ view' = skipped.view
                /\ UNCHANGED ctx
    /\ vpc' = "returned"
    /\ UNCHANGED <<content, author_is_bot, command_prefix, case_insensitive,
                   strip_after_prefix, vcall>>

PrefixStrings == {<<"a", "!">>, <<"!">>}

\* a later caller uses the view: view.skip_string(string)
CallSkipString ==
    /\ UNCHANGED notView
    /\ vpc = "returned"
    /\ vcall.n < MaxViewCalls
    /\ \E string \in PrefixStrings \cup AllCommands :
          LET r == ViewSkipString(case_insensitive, view, string) IN
          /\ view' = r.view
          /\ vcall' = [n |-> vcall.n + 1, string |-> string, result |-> r.result]
    /\ UNCHANGED <<content, author_is_bot, command_prefix, case_insensitive,
                   strip_after_prefix, ctx, vpc>>

NextView ==
    \/ GetContextView
    \/ GetContextInvoker
    \/ CallSkipString

\* the message is a configured prefix in some letter case, then the name of a
\* registered command, then nothing or a blank
PrefixedCommand(prefixes) ==
    \E i \in 1..Len(prefixes), name \in AllCommands :
        LET n == Len(prefixes[i]) IN
        /\ Len(content) >= n + Len(name)
        /\ Lower(SubSeq(content, 1, n)) = Lower(prefixes[i])
        /\ SubSeq(content, n + 1, n + Len(name)) = name
        /\ Len(content) > n + Len(name) => IsSpace(content[n + Len(name) + 1])

ConfiguredPrefixes ==
    IF IsStr(command_prefix) THEN <<command_prefix.str>> ELSE command_prefix.list

\* C5: with config.case_insensitive, a message that starts with a configured
\* prefix in any letter case followed by a registered command name gets a
\* context whose command is set, for a string prefix and for a list of them.
C5_PrefixAnyCase ==
    (vpc = "returned" /\ case_insensitive /\ ~author_is_bot /\ PrefixedCommand(ConfiguredPrefixes))
        => ctx.command.set

\* the same for a prefix that is one string, where the code does it
C5_StrPrefixAnyCase ==
    (vpc = "returned" /\ case_insensitive /\ ~author_is_bot /\ IsStr(command_prefix)
        /\ PrefixedCommand(ConfiguredPrefixes))
        => ctx.command.set

\* C6: view.skip_string(s) on a CaseInsensitiveStringView returns True exactly
\* when the slice of the buffer from index, len(s) long, equals s once both are
\* lower-cased; then previous is the old index and index is len(s) further;
\* otherwise index and previous are unchanged.
C6_SkipString ==
    [][(vcall'.n = vcall.n + 1 /\ case_insensitive) =>
        LET s == vcall'.string
            same == Lower(Slice(view.buffer, view.index, view.index + Len(s))) = Lower(s)
        IN  /\ vcall'.result <=> same
            /\ vcall'.result =>
                  view'.previous = view.index /\ view'.index = view.index + Len(s)
            /\ ~vcall'.result =>
                  view'.previous = view.previous /\ view'.index = view.index]_vars

\* a call of skip_string away from the start of the buffer returned True for
\* a slice that differs from its argument in letter case
C6_Witness ==
    /\ case_insensitive
    /\ vcall.n >= 1
    /\ vcall.result
    /\ view.previous > 0
    /\ view.index = view.previous + Len(vcall.string)
    /\ Slice(view.buffer, view.previous, view.index) # vcall.string

(***************************************************************************)
(* Locale (utils.set_locale, utils.py:373-389).                            *)
(***************************************************************************)
\* i18n.config.get('fallback'), and the locales Discord sends
FallbackLocale == "en"
Locales == {"fr", "de"}

\* the arguments of set_locale: a Context (lang is "none" when
\* ctx.interaction is None), an Interaction, a discord.Locale, a str, another
Value(type, lang) == [type |-> type, lang |-> lang]
Values ==
    {Value("Context", l) : l \in Locales \cup {"none"}}
        \cup {Value(type, l) : type \in {"Interaction", "Locale", "str"}, l \in Locales}
        \cup {Value("other", "none")}

\* a set_locale whose last branch leaves the setting as it is
SetLocaleKeeps(value, current) ==
    CASE value.type = "Context" /\ value.lang # "none" -> value.lang
      [] value.type = "Interaction" -> value.lang
      [] value.type = "Locale" -> value.lang
      [] value.type = "str" -> value.lang
      [] OTHER -> current

\* set_locale(value): what i18n's 'locale' is set to
SetLocale(value, current) ==
    CASE value.type = "Context" /\ value.lang # "none" -> value.lang
      [] value.type = "Interaction" -> value.lang
      [] value.type = "Locale" -> value.lang
      [] value.type = "str" -> value.lang
      [] OTHER -> FallbackLocale

\* user code calls set_locale(value)
CallSetLocale ==
    /\ UNCHANGED notError
    /\ lcall.direct < MaxLocaleCalls
    /\ \E value \in Values :
          /\ locale' = SetLocale(value, locale)
          /\ lcall' = [n |-> lcall.n + 1, direct |-> lcall.direct + 1, value |-> value]
    /\ UNCHANGED <<command_prefix, log_commands, alert_user, log_channel, inv>>

(***************************************************************************)
(* What a handler does, in order: messages sent, records logged, calls.    *)
(***************************************************************************)
\* a message whose text is t(key, ...), rendered under the current 'locale'
Msg(op, key, ephemeral) ==
    [op |-> op, key |-> key, locale |-> locale, level |-> "none", ephemeral |-> ephemeral]
\* logger.log(level, ...)
Log(level, what) ==
    [op |-> "log", key |-> what, locale |-> "none", level |-> level, ephemeral |-> FALSE]
\* another call: dispatch, sync, a reply that failed
Did(op, what) ==
    [op |-> op, key |-> what, locale |-> "none", level |-> "none", ephemeral |-> FALSE]

\* the events of a piece of code and the exception it raised, if any
Out(events, exc) == [events |-> events, exc |-> exc]
Then(first, second) ==
    IF first.exc # None THEN first
    ELSE Out(first.events \o second.events, second.exc)

\* Cooldown: no cooldown, or the window's start, the last call and whether
\* the tokens are all there
NoCooldown == [set |-> FALSE, window |-> 0, last |-> 0, full |-> TRUE]
Cooldowns == {NoCooldown} \cup
    {[set |-> TRUE, window |-> 1, last |-> l, full |-> FALSE] : l \in {1, 2}}
\* `if cd and cd._window == cd._last: cd.reset()`
IgnoreCd(cd) ==
    IF cd.set /\ cd.window = cd.last THEN [cd EXCEPT !.last = 0, !.full = TRUE] ELSE cd

\* what destination.reply and destination.send may do: return, or raise an
\* HTTPException (Forbidden, NotFound, ...) or something else
ReplyOutcomes == {"ok", "HTTPException", "RuntimeError"}
SendOutcomes == {"ok", "HTTPException"}

\* a destination of fallback_reply: its class, what its reply and its send
\* will do, and response.is_done() for an Interaction
Destination(type, reply, send, done) ==
    [type |-> type, reply |-> reply, send |-> send, done |-> done]

\* kwargs.setdefault("mention_author", False): the keyword is "unset" when
\* the caller did not pass it
SetDefault(passed) == IF passed = "unset" THEN "False" ELSE passed

\* a call fallback_reply makes on the destination, with its keywords, and
\* whether it returned (the message is delivered) or raised
Called(op, mention_author, ephemeral, outcome) ==
    [op |-> op, mention_author |-> mention_author, ephemeral |-> ephemeral,
     outcome |-> outcome]

\* try: reply(...) / except Exception: send(...)
ReplyOrSendAlways(dest, send, mention_author) ==
    LET reply == Called("reply", mention_author, "unset", dest.reply) IN
    IF dest.reply = "ok" THEN [calls |-> <<reply>>, exc |-> None]
    ELSE [calls |-> <<reply, Called(send, mention_author, "unset", dest.send)>>,
          exc |-> IF dest.send = "ok" THEN None ELSE dest.send]

\* try: reply(...) / except HTTPException: send(...)
ReplyOrSend(dest, send, mention_author) ==
    LET reply == Called("reply", mention_author, "unset", dest.reply) IN
    IF dest.reply = "ok" THEN [calls |-> <<reply>>, exc |-> None]
    ELSE IF dest.reply = "HTTPException"
    THEN [calls |-> <<reply, Called(send, mention_author, "unset", dest.send)>>,
          exc |-> IF dest.send = "ok" THEN None ELSE dest.send]
    ELSE [calls |-> <<reply>>, exc |-> dest.reply]

\* fallback_reply(destination, *args, **kwargs): the calls it makes and the
\* exception it lets through
FallbackReplyCalls(dest, passed) ==
    LET mention_author == SetDefault(passed) IN
    CASE dest.type = "Context" -> ReplyOrSend(dest, "send", mention_author)
      [] dest.type = "Interaction" ->
            IF dest.done
            THEN [calls |-> <<Called("channel.send", "unset", "unset", dest.send)>>,
                  exc |-> IF dest.send = "ok" THEN None ELSE dest.send]
            ELSE [calls |-> <<Called("response.send_message", "unset", "True", dest.send)>>,
                  exc |-> IF dest.send = "ok" THEN None ELSE dest.send]
      [] dest.type = "Message" -> ReplyOrSend(dest, "channel.send", mention_author)
      [] OTHER ->
            [calls |-> <<Called("send", mention_author, "unset", dest.send)>>,
             exc |-> IF dest.send = "ok" THEN None ELSE dest.send]

\* the events of the calls: a message for a call that returned
RECURSIVE Events(_, _)
Events(made, key) ==
    IF made = <<>> THEN <<>>
    ELSE LET c == Head(made) IN
         <<IF c.outcome = "ok" THEN Msg(c.op, key, c.ephemeral = "True")
           ELSE Did(c.op, c.outcome)>> \o Events(Tail(made), key)

\* fallback_reply(destination, message) for a Context or an Interaction
FallbackReply(i, key) ==
    LET r == FallbackReplyCalls(
                 Destination(IF i.origin = "app" THEN "Interaction" ELSE "Context",
                             i.reply, "ok", i.done), "unset")
    IN  Out(Events(r.calls, key), r.exc)

\* a call that has not returned, and one that has
NotReturned == [returned |-> FALSE]

\* fallback_reply(destination, ..., mention_author=passed) is called
CallFallbackReply ==
    /\ UNCHANGED notCall
    /\ call.fn = "fallback_reply"
    /\ ~result.returned
    /\ LET r == FallbackReplyCalls(call.dest, call.passed) IN
       result' = [returned |-> TRUE, calls |-> r.calls, exc |-> r.exc]
    /\ UNCHANGED <<call, log_commands, alert_user, log_channel>>

Destinations ==
    {Destination(type, reply, send, done) :
        type \in {"Context", "Interaction", "Message", "TextChannel"},
        reply \in ReplyOutcomes, send \in SendOutcomes, done \in BOOLEAN}

InitReply ==
    /\ call \in {[fn |-> "fallback_reply", dest |-> d, passed |-> m] :
                    d \in Destinations, m \in {"unset", "True", "False"}}
    /\ result = NotReturned
    /\ log_commands = FALSE
    /\ alert_user = FALSE
    /\ log_channel = "unset"

\* log_data(bot, message, data, level=ERROR)
LogData(level, what) ==
    Out(<<Log(level, what)>> \o
        (CASE log_channel = "unset" -> <<>>
           [] log_channel = "missing" -> <<Log("error", "channel not found")>>
           [] OTHER -> <<Did("log_channel.send", what)>>),
        None)

\* what exc_info may be: an exception with its traceback (a tuple, or True
\* while an exception is handled), True while none is handled (sys.exc_info()
\* is then (None, None, None), a tuple that is true), a tuple of an exception
\* that was never raised (its traceback is None), or a false value
ExcInfos == {"exception", "True, none handled", "no traceback", "False"}

\* log_data(bot, message, data, level=level, exc_info=exc_info):
\* tb.extract_tb(err_traceback)[-1] is read before the record is logged
LogDataCalled(level, what, exc_info) ==
    IF exc_info \in {"True, none handled", "no traceback"}
    THEN Out(<<>>, "IndexError")
    ELSE LogData(level, what)

Levels == {"debug", "info", "warning", "error", "critical"}
Messages == {"Error raised", "command failed"}

\* log_data(...) is called
CallLogData ==
    /\ UNCHANGED notCall
    /\ call.fn = "log_data"
    /\ ~result.returned
    /\ LET r == LogDataCalled(call.level, call.message, call.exc_info) IN
       result' = [returned |-> TRUE, events |-> r.events, exc |-> r.exc]
    /\ UNCHANGED <<call, log_commands, alert_user, log_channel>>

InitLogData ==
    /\ call \in {[fn |-> "log_data", level |-> l, message |-> m, exc_info |-> e] :
                    l \in Levels, m \in Messages, e \in ExcInfos}
    /\ result = NotReturned
    /\ log_commands = FALSE
    /\ alert_user = FALSE
    /\ log_channel \in {"unset", "found", "missing"}

\* log_command_error(ctx_i, err, logger): ctx_i.guild is None outside a guild
LogCommandError(i) ==
    Then(IF alert_user THEN FallbackReply(i, "exception") ELSE Out(<<>>, None),
         IF i.guild THEN LogData("error", "command failed")
         ELSE Out(<<>>, "AttributeError"))

\* interaction.response.send_message(t(key), ephemeral=...)
SendMessage(i, key, ephemeral) ==
    IF i.done THEN Out(<<>>, "InteractionResponded")
    ELSE Out(<<Msg("response.send_message", key, ephemeral)>>, None)

(***************************************************************************)
(* CommandTree.handle_error (tree.py:61-137).                              *)
(***************************************************************************)
TransientErrors == {"ServerDisconnectedError", "DiscordServerError", "ClientOSError"}
Originals == TransientErrors \cup {"Forbidden", "NotFound", "ValueError"}

\* the errors answered with one message, and the key of the message
TreeReplies ==
    [TransformerError |-> "app_error.transformer",
     NoPrivateMessage |-> "app_error.no_private_message",
     MissingRole |-> "app_error.missing_role",
     MissingAnyRole |-> "app_error.missing_any_role",
     MissingPermissions |-> "app_error.missing_permissions",
     BotMissingPermissions |-> "app_error.bot_missing_permissions",
     CommandOnCooldown |-> "app_error.on_cooldown"]

AppErrors == DOMAIN TreeReplies
    \cup {"CommandNotFound", "CheckFailure", "CommandInvokeError", "AppCommandError"}

\* the isinstance chain; logged is the local of that name
TreeBranch(i) ==
    CASE i.error \in DOMAIN TreeReplies ->
            [out |-> IF i.error = "MissingAnyRole" /\ i.attr = "ids"
                     THEN Out(<<>>, "TypeError")      \* ", ".join of role ids
                     ELSE SendMessage(i, TreeReplies[i.error],
                                      i.error # "CommandOnCooldown"),
             logged |-> FALSE]
      [] i.error = "CommandInvokeError" /\ i.attr \in TransientErrors ->
            [out |-> Out(IF log_commands THEN <<Log("warning", "command failed")>>
                         ELSE <<>>, None),
             logged |-> TRUE]
      [] i.error = "CommandInvokeError" ->
            [out |-> LogCommandError(i), logged |-> TRUE]
      [] OTHER ->
            [out |-> Out(<<Log("error", "Unhandled command error")>>, None),
             logged |-> TRUE]

\* handle_error(interaction, error): its events, its exception, the cooldown
TreeHandleError(i) ==
    IF i.error = "CommandNotFound"
    THEN [out |-> Then(Out(<<Did("sync", "guild")>>, None),
                       SendMessage(i, "app_error.command_not_found", TRUE)),
          cd |-> i.cd]
    ELSE LET b == TreeBranch(i) IN
         [out |-> Then(b.out,
                       Out(IF ~b.logged /\ log_commands
                           THEN <<Log("info", "command cancelled")>> ELSE <<>>, None)),
          cd |-> IF i.error # "CommandOnCooldown" THEN IgnoreCd(i.cd) ELSE i.cd]

(***************************************************************************)
(* Bot.handle_error (bot.py:372-447).                                      *)
(***************************************************************************)
BotReplies ==
    [ConversionError |-> "command_error.bad_argument",
     BadArgument |-> "command_error.bad_argument",
     MissingRequiredArgument |-> "command_error.missing_argument",
     BotMissingPermissions |-> "command_error.bot_missing_permission",
     NotOwner |-> "command_error.user_missing_permission",
     MissingPermissions |-> "command_error.user_missing_permission",
     CommandOnCooldown |-> "command_error.on_cooldown",
     InvalidEndOfQuotedStringError |-> "command_error.invalid_quoted_string",
     ExpectedClosingQuoteError |-> "command_error.invalid_quoted_string",
     PrivateMessageOnly |-> "command_error.private_message_only",
     NoPrivateMessage |-> "command_error.no_private_message"]

ExtErrors == DOMAIN BotReplies \cup {"CommandNotFound", "CheckFailure", "CommandInvokeError"}
\* the app command errors a HybridCommandError wraps
HybridErrors == {"AppCommandInvokeError", "AppCheckFailure"}

\* the errors whose message holds `self.command_prefix + "help " + ...`
UsageErrors == {"ConversionError", "BadArgument", "MissingRequiredArgument"}

\* the isinstance chain, after HybridCommandError is unwrapped
BotBranch(i) ==
    CASE i.error \in UsageErrors ->
            [out |-> IF IsStr(command_prefix)
                     THEN FallbackReply(i, BotReplies[i.error])
                     ELSE Out(<<>>, "TypeError"),      \* list + str
             logged |-> FALSE]
      [] i.error = "CommandInvokeError" /\ i.attr = "Forbidden" ->
            [out |-> FallbackReply(i, "command_error.bot_missing_permission"),
             logged |-> FALSE]
      [] i.error = "CommandInvokeError" /\ i.attr = "NotFound" ->
            [out |-> FallbackReply(i, "command_error.not_found"), logged |-> FALSE]
      [] i.error \in DOMAIN BotReplies ->
            [out |-> FallbackReply(i, BotReplies[i.error]), logged |-> FALSE]
      [] i.error = "CommandInvokeError" /\ i.attr \in TransientErrors ->
            [out |-> Out(IF log_commands THEN <<Log("warning", "command failed")>>
                         ELSE <<>>, None),
             logged |-> TRUE]
      [] i.error \in {"CommandInvokeError", "AppCommandInvokeError"} ->
            \* log_command_error(self, ctx, error.original, logger=_log): the
            \* call binds logger twice and raises before the function runs
            [out |-> Out(<<>>, "TypeError"), logged |-> TRUE]
      [] OTHER ->
            [out |-> Out(<<Log("error", "Unhandled command error")>>, None),
             logged |-> TRUE]

\* ctx.command.cooldown: the cooldown the command was declared with.  It is
\* the bucket of the context for BucketType.default only; for the other types
\* the buckets are copies of it and it is never used itself
CommandCooldown(i) ==
    IF i.shared THEN i.cd
    ELSE [i.cd EXCEPT !.window = 0, !.last = 0, !.full = TRUE]

\* the bucket of the context after `if ... cd and cd._window == cd._last: cd.reset()`
\* on ctx.command.cooldown
BotIgnoreCd(i) == IF i.shared THEN IgnoreCd(CommandCooldown(i)) ELSE i.cd

\* handle_error without the return for CommandNotFound
BotHandleErrorNotFound(i) ==
    LET b == BotBranch(i) IN
    [out |-> Then(b.out,
                  Out(IF ~b.logged /\ log_commands
                      THEN <<Log("info", "command cancelled")>> ELSE <<>>, None)),
     cd |-> IF i.error # "CommandOnCooldown" THEN BotIgnoreCd(i) ELSE i.cd]

\* handle_error(ctx, error): its events, its exception, the cooldown
BotHandleError(i) ==
    IF i.error = "CommandNotFound"
    THEN [out |-> Out(<<>>, None), cd |-> i.cd]
    ELSE LET b == BotBranch(i) IN
         [out |-> Then(b.out,
                       Out(IF ~b.logged /\ log_commands
                           THEN <<Log("info", "command cancelled")>> ELSE <<>>, None)),
          cd |-> IF i.error # "CommandOnCooldown" THEN BotIgnoreCd(i) ELSE i.cd]

(***************************************************************************)
(* Invocations: Bot.invoke and on_command_error (bot.py:166-195, 360-370), *)
(* CommandTree._call and on_error (tree.py:139-188, 33-59).                *)
(***************************************************************************)
Procs == 1..MaxInvocations

NoInvocation ==
    [origin |-> "none", error |-> None, attr |-> "none", guild |-> FALSE, done |-> FALSE,
     lang |-> "none", cd |-> NoCooldown, shared |-> TRUE, reply |-> "ok",
     handled |-> FALSE, handlers |-> {}, once |-> "pass",
     kind |-> "command", command_failed |-> FALSE,
     pc |-> "absent", events |-> <<>>, exc |-> None]

\* what set_locale is given for an invocation
ValueOf(i) == IF i.origin = "prefix" THEN Value("Context", "none")
              ELSE Value("Interaction", i.lang)

NoCall == [n |-> 0, direct |-> 0, value |-> Value("other", "none")]

\* ctx.command of a prefix invocation: None when the name is not the one of
\* a command, or when the message holds the prefix and no name
HasCommand(i) == i.error # "CommandNotFound" /\ i.attr # "empty name"

\* `ctx.invoked_with`
InvokedWith(i) == i.attr # "empty name"

\* the exceptions that are not a CommandError: a check or a hook that raises
\* one, the cancellation of the task
NotCommandErrors == {"Exception"}

\* the call of ctx.command.invoke(ctx) whatever the once-checks give
CanRunAlways(i) == <<Did("call", "command.invoke")>>

\* `await self.can_run(ctx, call_once=True)` and, when it is true,
\* the call of ctx.command.invoke(ctx)
CanRun(i) ==
    IF i.once = "pass" THEN <<Did("call", "command.invoke")>> ELSE <<>>

\* Bot.invoke(ctx) up to the await of the command
BotInvoke ==
    /\ UNCHANGED notError
    /\ \E p \in Procs :
          LET i == inv[p] IN
          /\ i.pc = "new"
          /\ i.origin = "prefix"
          /\ IF HasCommand(i)
             THEN /\ inv' = [inv EXCEPT ![p].pc = "running",
                                 ![p].events = @ \o <<Did("dispatch", "command"),
                                                      Did("call", "set_locale")>>
                                                 \o CanRun(i)]
                  /\ locale' = SetLocale(ValueOf(i), locale)
                  /\ lcall' = [lcall EXCEPT !.n = @ + 1, !.value = ValueOf(i)]
             ELSE IF InvokedWith(i)
             THEN /\ inv' = [inv EXCEPT ![p].pc = "failed",
                                 ![p].events = @ \o <<Did("dispatch", "command_error")>>]
                  /\ UNCHANGED <<locale, lcall>>
             ELSE /\ inv' = [inv EXCEPT ![p].pc = "done"]
                  /\ UNCHANGED <<locale, lcall>>
    /\ UNCHANGED <<command_prefix, log_commands, alert_user, log_channel>>

\* Bot.invoke(ctx) once the command has returned or raised
BotInvokeEnd ==
    /\ UNCHANGED notError
    /\ \E p \in Procs :
          LET i == inv[p] IN
          /\ i.pc = "running"
          /\ i.origin = "prefix"
          /\ inv' = IF i.error = None
                    THEN [inv EXCEPT ![p].pc = "done",
                              ![p].events = @ \o <<Did("dispatch", "command_completion")>>]
                    ELSE IF i.error \in NotCommandErrors
                    THEN [inv EXCEPT ![p].pc = "escaped", ![p].exc = i.error]
                    ELSE \* ctx.command.dispatch_error(ctx, exc), that ends
                         \* with the dispatch of 'command_error'
                         [inv EXCEPT ![p].pc = "failed",
                              ![p].events = @ \o <<Did("call", "command.dispatch_error"),
                                                   Did("dispatch", "command_error")>>]
    /\ UNCHANGED <<command_prefix, log_commands, alert_user, log_channel, locale, lcall>>

\* what may handle the error of a command instead of the bot: a listener of
\* 'on_command_error', the error handler of the command, the one of its cog
ErrorHandlers == {"listener", "command", "cog"}

\* the first two returns of on_command_error, without the one for the cog
ReturnsEarlyNoCog(i) ==
    \/ "listener" \in i.handlers
    \/ HasCommand(i) /\ "command" \in i.handlers

\* the three returns of on_command_error before handle_error
ReturnsEarly(i) ==
    \/ "listener" \in i.handlers
    \/ HasCommand(i) /\ "command" \in i.handlers
    \/ HasCommand(i) /\ "cog" \in i.handlers

\* Bot.on_command_error(ctx, error)
OnCommandError ==
    /\ UNCHANGED notError
    /\ \E p \in Procs :
          LET i == inv[p]
              r == BotHandleError(i)
          IN  /\ i.pc = "failed"
              /\ i.origin \in {"prefix", "hybrid"}
              /\ inv' = IF ReturnsEarly(i)
                        THEN [inv EXCEPT ![p].pc = "done"]
                        ELSE [inv EXCEPT ![p].pc = IF r.out.exc = None THEN "done"
                                                    ELSE "raised",
                                         ![p].events = @ \o <<Did("call", "handle_error")>>
                                                         \o r.out.events,
                                         ![p].exc = r.out.exc,
                                         ![p].cd = r.cd]
    /\ UNCHANGED <<command_prefix, log_commands, alert_user, log_channel, locale, lcall>>

\* what _call awaits after the dispatch of 'app_command', for every kind of
\* interaction
TreeInvokeAlways(i) == <<Did("call", "command._invoke_with_namespace")>>

\* what _call awaits after the dispatch of 'app_command': the autocomplete
\* of the focused option, or the command
TreeInvoke(i) ==
    IF i.kind = "autocomplete"
    THEN <<Did("call", "command._invoke_autocomplete")>>
    ELSE <<Did("call", "command._invoke_with_namespace")>>

\* CommandTree._call(interaction) up to the await of the command; a command
\* that is not found raises before set_locale, an autocomplete with no
\* focused option after the dispatch
TreeCall ==
    /\ UNCHANGED notError
    /\ \E p \in Procs :
          LET i == inv[p] IN
          /\ i.pc = "new"
          /\ i.origin \in {"app", "hybrid"}
          /\ IF i.once = "fail"
             THEN /\ inv' = [inv EXCEPT ![p].pc = "done", ![p].command_failed = TRUE]
                  /\ UNCHANGED <<locale, lcall>>
             ELSE IF i.kind = "context menu"
             THEN /\ inv' = [inv EXCEPT ![p].pc = "done",
                                 ![p].events = @ \o <<Did("call", "_call_context_menu")>>]
                  /\ UNCHANGED <<locale, lcall>>
             ELSE IF i.error = "CommandNotFound"
             THEN /\ inv' = [inv EXCEPT ![p].pc = "failed"]
                  /\ UNCHANGED <<locale, lcall>>
             ELSE /\ inv' = IF i.kind = "autocomplete" /\ i.attr = "no focused"
                            THEN [inv EXCEPT ![p].pc = "failed",
                                      ![p].events = @ \o <<Did("dispatch", "app_command")>>]
                            ELSE [inv EXCEPT ![p].pc = "running",
                                      ![p].events = @ \o <<Did("dispatch", "app_command")>>
                                                      \o TreeInvoke(i)]
                  /\ locale' = SetLocale(ValueOf(i), locale)
                  /\ lcall' = [lcall EXCEPT !.n = @ + 1, !.value = ValueOf(i)]
    /\ UNCHANGED <<command_prefix, log_commands, alert_user, log_channel>>

\* CommandTree._call(interaction) once the command has returned or raised
TreeCallEnd ==
    /\ UNCHANGED notError
    /\ \E p \in Procs :
          LET i == inv[p] IN
          /\ i.pc = "running"
          /\ i.origin \in {"app", "hybrid"}
          /\ inv' = IF i.kind = "autocomplete"
                    THEN \* an exception of the autocomplete is logged and dropped
                         [inv EXCEPT ![p].pc = "done",
                              ![p].events = @ \o
                                  (IF i.attr = "raises"
                                   THEN <<Log("error", "Ignoring exception in autocomplete")>>
                                   ELSE <<>>)]
                    ELSE IF i.error = None
                    THEN [inv EXCEPT ![p].pc = "done",
                              ![p].command_failed = @ \/ i.attr = "sets command_failed",
                              ![p].events = @ \o
                                  (IF ~(i.command_failed \/ i.attr = "sets command_failed")
                                   THEN <<Did("dispatch", "app_command_completion")>>
                                   ELSE <<>>)]
                    ELSE IF i.origin = "hybrid"
                    THEN \* the hybrid command handles its error itself: it sets
                         \* command_failed, dispatches 'command_error' and returns
                         [inv EXCEPT ![p].pc = "failed", ![p].command_failed = TRUE,
                              ![p].events = @ \o <<Did("dispatch", "command_error")>>]
                    ELSE IF i.error \in NotCommandErrors
                    THEN [inv EXCEPT ![p].pc = "escaped", ![p].exc = i.error]
                    ELSE [inv EXCEPT ![p].pc = "failed", ![p].command_failed = TRUE,
                              ![p].events = @ \o <<Did("set", "command_failed"),
                                                   Did("call", "command._invoke_error_handlers")>>]
    /\ UNCHANGED <<command_prefix, log_commands, alert_user, log_channel, locale, lcall>>

\* CommandTree.on_error(interaction, error)
TreeOnError ==
    /\ UNCHANGED notError
    /\ \E p \in Procs :
          LET i == inv[p]
              r == TreeHandleError(i)
          IN  /\ i.pc = "failed"
              /\ i.origin = "app"
              /\ inv' = IF i.handled
                        THEN [inv EXCEPT ![p].pc = "done",
                                         ![p].events = @ \o <<Did("call", "on_error")>>]
                        ELSE [inv EXCEPT ![p].pc = IF r.out.exc = None THEN "done"
                                                    ELSE "raised",
                                         ![p].events = @ \o <<Did("call", "on_error")>>
                                                         \o r.out.events,
                                         ![p].exc = r.out.exc,
                                         ![p].cd = r.cd]
    /\ UNCHANGED <<command_prefix, log_commands, alert_user, log_channel, locale, lcall>>

NextError ==
    \/ BotInvoke
    \/ BotInvokeEnd
    \/ OnCommandError
    \/ TreeCall
    \/ TreeCallEnd
    \/ TreeOnError

NextLocale ==
    \/ BotInvoke
    \/ BotInvokeEnd
    \/ OnCommandError
    \/ TreeCall
    \/ TreeCallEnd
    \/ TreeOnError
    \/ CallSetLocale

\* an error and its attribute: the original of a CommandInvokeError, the kind
\* of the roles of a MissingAnyRole
Cases(errors) ==
    {[error |-> e, attr |-> "none"] : e \in (errors \cup {None}) \ {"CommandInvokeError", "MissingAnyRole"}}
        \cup {[error |-> e, attr |-> o] : e \in errors \cap {"CommandInvokeError"}, o \in Originals}
        \cup {[error |-> e, attr |-> r] : e \in errors \cap {"MissingAnyRole"}, r \in {"names", "ids"}}

\* the errors the callback of the command raises: only then may the
\* interaction have been responded to
FromCallback == {None, "CommandInvokeError", "AppCommandError"}

AppCommandInvocations ==
    {i \in {[NoInvocation EXCEPT !.origin = "app", !.error = c.error, !.attr = c.attr,
                 !.guild = guild, !.done = done, !.lang = "fr", !.cd = cd,
                 !.handled = handled, !.pc = "new"] :
               c \in Cases(AppErrors), guild \in BOOLEAN, done \in BOOLEAN,
               cd \in Cooldowns, handled \in BOOLEAN} :
        /\ i.done => i.error \in FromCallback
        /\ i.handled => i.error # "CommandNotFound"}

\* the other interactions _call is given: one that interaction_check turns
\* down, a context menu, an autocomplete (with no focused option, with an
\* autocomplete callback that raises or returns), a command that sets
\* command_failed itself and returns, a command that an exception other than
\* an AppCommandError leaves
AppOtherInvocations ==
    {[NoInvocation EXCEPT !.origin = "app", !.once = "fail", !.error = e, !.kind = k,
          !.lang = "fr", !.pc = "new"] :
        e \in {None, "CommandNotFound", "NoPrivateMessage"},
        k \in {"command", "context menu", "autocomplete"}}
    \cup {[NoInvocation EXCEPT !.origin = "app", !.kind = "context menu", !.error = e,
               !.lang = "fr", !.pc = "new"] :
             e \in {None, "CommandNotFound", "NoPrivateMessage"}}
    \cup {[NoInvocation EXCEPT !.origin = "app", !.kind = "autocomplete", !.error = c.error,
               !.attr = c.attr, !.guild = guild, !.lang = "fr", !.pc = "new"] :
             c \in {[error |-> None, attr |-> "none"], [error |-> None, attr |-> "raises"],
                     [error |-> "AppCommandError", attr |-> "no focused"],
                     [error |-> "CommandNotFound", attr |-> "none"]},
             guild \in BOOLEAN}
    \cup {[NoInvocation EXCEPT !.origin = "app", !.attr = "sets command_failed",
               !.guild = guild, !.lang = "fr", !.pc = "new"] : guild \in BOOLEAN}
    \cup {[NoInvocation EXCEPT !.origin = "app", !.error = e, !.guild = guild,
               !.lang = "fr", !.pc = "new"] :
             e \in NotCommandErrors, guild \in BOOLEAN}

AppInvocations == AppCommandInvocations \cup AppOtherInvocations

\* the errors a global once-check raises
OnceErrors == {"CheckFailure", "NotOwner"}

\* shared: the cooldown of the command is BucketType.default, one bucket
\* for every context; handled: one of the error handlers is there; once: the
\* global once-checks pass, fail (can_run is false) or raise
ExtCommandInvocations ==
    {i \in {[NoInvocation EXCEPT !.origin = "prefix", !.error = c.error, !.attr = c.attr,
                 !.guild = guild, !.reply = reply, !.cd = cd, !.shared = shared,
                 !.handlers = handlers, !.handled = handlers # {}, !.once = once,
                 !.pc = "new"] :
               c \in Cases(ExtErrors), guild \in BOOLEAN, reply \in ReplyOutcomes,
               cd \in Cooldowns, shared \in BOOLEAN, handlers \in SUBSET ErrorHandlers,
               once \in {"pass", "fail", "raise"}} :
        /\ ~i.shared => i.cd.set
        /\ i.once = "fail" => i.error = "CheckFailure"
        /\ i.once = "raise" => i.error \in OnceErrors
        /\ i.error = "CommandNotFound" =>
              i.handlers \subseteq {"listener"} /\ i.once = "pass"}

\* the prefix invocations that end with no error for the handlers: the
\* message holds no name after the prefix, or an exception that is not a
\* CommandError leaves Bot.invoke
ExtOtherInvocations ==
    {[NoInvocation EXCEPT !.origin = "prefix", !.attr = "empty name", !.guild = guild,
          !.handlers = handlers, !.handled = handlers # {}, !.pc = "new"] :
        guild \in BOOLEAN, handlers \in SUBSET {"listener"}}
    \cup {[NoInvocation EXCEPT !.origin = "prefix", !.error = e, !.guild = guild,
               !.handlers = handlers, !.handled = handlers # {}, !.once = once,
               !.pc = "new"] :
             e \in NotCommandErrors, guild \in BOOLEAN,
             handlers \in SUBSET ErrorHandlers, once \in {"pass", "raise"}}

ExtInvocations == ExtCommandInvocations \cup ExtOtherInvocations

HybridInvocations ==
    {[NoInvocation EXCEPT !.origin = "hybrid", !.error = e, !.attr = "ValueError",
          !.guild = guild, !.lang = "fr", !.handlers = handlers,
          !.handled = handlers # {}, !.pc = "new"] :
        e \in HybridErrors, guild \in BOOLEAN, handlers \in SUBSET ErrorHandlers}

\* one invocation, of any kind, under any configuration of the log
InitError ==
    /\ log_commands \in BOOLEAN
    /\ alert_user \in BOOLEAN
    /\ log_channel \in {"unset", "found", "missing"}
    /\ locale = FallbackLocale
    /\ lcall = NoCall
    /\ command_prefix \in {[str |-> <<"!">>], [list |-> <<<<"!">>>>]}
    /\ \E i \in AppInvocations \cup ExtInvocations \cup HybridInvocations :
          inv = [p \in Procs |-> IF p = 1 THEN i ELSE NoInvocation]

\* the invocations that run side by side
LocaleInvocations ==
    {[NoInvocation EXCEPT !.origin = "prefix", !.error = e, !.pc = "new"] :
        e \in {None, "NoPrivateMessage"}}
    \cup {[NoInvocation EXCEPT !.origin = "app", !.error = e, !.lang = l, !.pc = "new"] :
        e \in {None, "NoPrivateMessage", "CommandNotFound"}, l \in Locales}

InitLocale ==
    /\ log_commands = FALSE
    /\ alert_user = FALSE
    /\ log_channel = "unset"
    /\ locale = FallbackLocale
    /\ lcall = NoCall
    /\ command_prefix = [str |-> <<"!">>]
    /\ inv \in [Procs -> LocaleInvocations]

(***************************************************************************)
(* Bot._load_cogs (bot.py:85-114).  Names are sequences of characters.     *)
(***************************************************************************)
LowerLetters == <<"a", "g", "x", "p", "y", "n", "t">>
UpperLetters == <<"A", "G", "X", "P", "Y", "N", "T">>
IsLowerLetter(c) == \E k \in 1..Len(LowerLetters) : LowerLetters[k] = c
IsUpperLetter(c) == \E k \in 1..Len(UpperLetters) : UpperLetters[k] = c
IsLetter(c) == IsLowerLetter(c) \/ IsUpperLetter(c)
\* str.upper and str.lower on one character
ToUpper(c) ==
    IF IsLowerLetter(c)
    THEN UpperLetters[CHOOSE k \in 1..Len(LowerLetters) : LowerLetters[k] = c] ELSE c
ToLower(c) ==
    IF IsUpperLetter(c)
    THEN LowerLetters[CHOOSE k \in 1..Len(UpperLetters) : UpperLetters[k] = c] ELSE c
\* str.lower
LowerName(name) == [k \in 1..Len(name) |-> ToLower(name[k])]
\* a title that leaves the name as it is
TitleAsIs(name) == name
\* str.title: a letter is upper-cased after a character that is no letter
\* and at the start, and lower-cased after a letter
Title(name) ==
    [k \in 1..Len(name) |->
        IF k = 1 \/ ~IsLetter(name[k - 1]) THEN ToUpper(name[k]) ELSE ToLower(name[k])]

DotPy == <<".", "p", "y">>
\* file.endswith(".py")
EndsWith(file, suffix) ==
    /\ Len(file) >= Len(suffix)
    /\ SubSeq(file, Len(file) - Len(suffix) + 1, Len(file)) = suffix
\* file[:-3]
Stem(file) == SubSeq(file, 1, Len(file) - Len(DotPy))

\* the files a cogs folder may hold: cog modules g.py and a.py, the module
\* x.py that defines no cog, G.py, and the files n.txt and py
FileNames ==
    {<<"g">> \o DotPy, <<"a">> \o DotPy, <<"x">> \o DotPy, <<"G">> \o DotPy,
     <<"n", ".", "t", "x", "t">>, <<"p", "y">>}
\* the modules that define the class their title names
CogModules == {<<"g">>, <<"a">>}

\* config.help.cog.title() if config.help.cog else None
HelpCogName(help_cog) == IF help_cog.set THEN Some(Title(help_cog.v)) ELSE Absent

\* the names of the cogs added so far
CogNames(cogs) == {cogs[k].name : k \in 1..Len(cogs)}

\* one turn of `for file in os.listdir("cogs")`
LoadCogsFile ==
    /\ UNCHANGED notCall
    /\ call.fn = "_load_cogs"
    /\ ~result.returned
    /\ call.isdir
    /\ result.pos < Len(call.files)
    /\ LET file == call.files[result.pos + 1]
           cog_name == Title(Stem(file))
           module == LowerName(cog_name)
           present == {call.files[k] : k \in 1..Len(call.files)}
           raises(exc) == [result EXCEPT !.returned = TRUE, !.exc = exc]
       IN  result' =
              IF ~EndsWith(file, DotPy) THEN [result EXCEPT !.pos = @ + 1]
              ELSE IF module \o DotPy \notin present THEN raises("ModuleNotFoundError")
              ELSE IF module \notin CogModules THEN raises("AttributeError")
              ELSE IF cog_name \in CogNames(result.cogs) THEN raises("ClientException")
              ELSE [result EXCEPT
                       !.pos = @ + 1,
                       !.cogs = Append(@, [name |-> cog_name, file |-> file]),
                       !.help = IF HelpCogName(call.help_cog) = Some(cog_name)
                                THEN Some(cog_name) ELSE @]
    /\ UNCHANGED <<call, log_commands, alert_user, log_channel>>

\* _load_cogs after the loop
LoadCogsEnd ==
    /\ UNCHANGED notCall
    /\ call.fn = "_load_cogs"
    /\ ~result.returned
    /\ ~call.isdir \/ result.pos = Len(call.files)
    /\ result' = [result EXCEPT
                      !.returned = TRUE,
                      !.exc = IF HelpCogName(call.help_cog).set /\ ~result.help.set
                              THEN "ModuleNotFoundError" ELSE None]
    /\ UNCHANGED <<call, log_commands, alert_user, log_channel>>

\* the sequences of distinct elements of S, up to n long
Listings(S, n) ==
    {sq \in SeqsUpTo(S, n) : \A j, k \in 1..Len(sq) : j # k => sq[j] # sq[k]}

InitLoadCogs ==
    /\ call \in {[fn |-> "_load_cogs", isdir |-> d, files |-> f, help_cog |-> h] :
                    d \in BOOLEAN, f \in Listings(FileNames, MaxFiles),
                    h \in {Absent, Some(<<"g">>), Some(<<"A">>), Some(<<"x">>)}}
    /\ result = [returned |-> FALSE, pos |-> 0, cogs |-> <<>>, help |-> Absent, exc |-> None]
    /\ log_commands = FALSE
    /\ alert_user = FALSE
    /\ log_channel = "unset"

(***************************************************************************)
(* Bot.run (bot.py:116-133).                                               *)
(***************************************************************************)
\* the values a token may have: None, the empty string, the empty addict.Dict
\* that config.token is when the key is missing, or a token
Falsy == {"None", "", "{}"}
Tokens == {"None", "", "T1"}
ConfigTokens == {"{}", "", "T2"}

\* `config.token or token or None`
TokenConfigFirst(token, config_token) ==
    IF config_token \notin Falsy THEN config_token
    ELSE IF token \notin Falsy THEN token
    ELSE "None"

\* `token or config.token or None`
Token(token, config_token) ==
    IF token \notin Falsy THEN token
    ELSE IF config_token \notin Falsy THEN config_token
    ELSE "None"

\* the keyword arguments of run: log_handler, that run passes itself as well,
\* reconnect and root_logger
RunKwargs ==
    [log_handler : {"unset", "handler"}, reconnect : {"unset", "True", "False"},
     root_logger : {"unset", "True"}]

\* Bot.run(token, **kwargs)
BotRun ==
    /\ UNCHANGED notCall
    /\ call.fn = "run"
    /\ ~result.returned
    /\ LET token == Token(call.token, call.config_token) IN
       result' =
          IF token \in Falsy
          THEN [returned |-> TRUE, exc |-> "NoSpecifiedTokenError", super_run |-> <<>>]
          ELSE IF call.kwargs.log_handler # "unset"
          THEN \* super().run(token, log_handler=None, **kwargs): the keyword twice
               [returned |-> TRUE, exc |-> "TypeError", super_run |-> <<>>]
          ELSE [returned |-> TRUE, exc |-> None,
                super_run |-> <<[token |-> token,
                                 kwargs |-> [call.kwargs EXCEPT !.log_handler = "None"]]>>]
    /\ UNCHANGED <<call, log_commands, alert_user, log_channel>>

InitRun ==
    /\ call \in {[fn |-> "run", token |-> t, config_token |-> c, kwargs |-> k] :
                    t \in Tokens, c \in ConfigTokens, k \in RunKwargs}
    /\ result = NotReturned
    /\ log_commands = FALSE
    /\ alert_user = FALSE
    /\ log_channel = "unset"

(***************************************************************************)
(* sformat and SparseFormatter (utils.py:41-148).  A text is the sequence  *)
(* of its characters.                                                      *)
(***************************************************************************)
DigitChars == <<"0", "1", "2", "3", "4", "5", "6", "7", "8", "9">>

\* str.isdigit
IsDigit(text) ==
    /\ text # <<>>
    /\ \A k \in 1..Len(text) : \E d \in 1..10 : text[k] = DigitChars[d]

\* int(text) of a text of digits
RECURSIVE ToInt(_)
ToInt(text) ==
    IF text = <<>> THEN 0
    ELSE 10 * ToInt(SubSeq(text, 1, Len(text) - 1))
            + ((CHOOSE d \in 1..10 : text[Len(text)] = DigitChars[d]) - 1)

\* str(n) of an index below ten
Str(n) == <<DigitChars[n + 1]>>

\* what Formatter.parse yields: literal text, a replacement field, or the
\* ValueError it raises when it comes to a malformed piece
LiteralText(text) == [kind |-> "literal", literal_text |-> text]
Field(field_name, conversion, format_spec) ==
    [kind |-> "field", field_name |-> field_name, conversion |-> conversion,
     format_spec |-> format_spec]
Malformed == [kind |-> "ValueError"]

\* the position of the brace that closes a field, 0 when there is none
RECURSIVE FieldEnd(_, _, _)
FieldEnd(text, i, bracket_count) ==
    IF i > Len(text) THEN 0
    ELSE IF text[i] = "{" THEN FieldEnd(text, i + 1, bracket_count + 1)
    ELSE IF text[i] = "}"
    THEN IF bracket_count = 1 THEN i ELSE FieldEnd(text, i + 1, bracket_count - 1)
    ELSE FieldEnd(text, i + 1, bracket_count)

\* where the name of a field ends: at its first '!' or ':'
RECURSIVE NameEnd(_, _)
NameEnd(field, i) ==
    IF i > Len(field) \/ field[i] \in {"!", ":"} THEN i ELSE NameEnd(field, i + 1)

\* a field, without its braces, split into name, conversion and format spec
ParseField(field) ==
    LET n == NameEnd(field, 1)
        field_name == SubSeq(field, 1, n - 1)
        last == Len(field)
    IN  IF \E k \in 1..Len(field_name) : field_name[k] = "{" THEN Malformed
        ELSE IF n > last THEN Field(field_name, <<>>, <<>>)
        ELSE IF field[n] = ":" THEN Field(field_name, <<>>, SubSeq(field, n + 1, last))
        ELSE IF n + 1 > last THEN Malformed
        ELSE IF n + 1 = last THEN Field(field_name, <<field[n + 1]>>, <<>>)
        ELSE IF field[n + 2] # ":" THEN Malformed
        ELSE Field(field_name, <<field[n + 1]>>, SubSeq(field, n + 3, last))

\* Formatter.parse(format_string), from position i on
RECURSIVE Parse(_, _)
Parse(text, i) ==
    IF i > Len(text) THEN <<>>
    ELSE IF text[i] = "}"
    THEN IF i < Len(text) /\ text[i + 1] = "}"
         THEN <<LiteralText(<<"}">>)>> \o Parse(text, i + 2)
         ELSE <<Malformed>>
    ELSE IF text[i] = "{"
    THEN IF i < Len(text) /\ text[i + 1] = "{"
         THEN <<LiteralText(<<"{">>)>> \o Parse(text, i + 2)
         ELSE LET end == FieldEnd(text, i + 1, 1) IN
              IF end = 0 THEN <<Malformed>>
              ELSE LET field == ParseField(SubSeq(text, i + 1, end - 1)) IN
                   IF field.kind = "ValueError" THEN <<Malformed>>
                   ELSE <<field>> \o Parse(text, end + 1)
    ELSE <<LiteralText(<<text[i]>>)>> \o Parse(text, i + 1)

\* Formatter.get_field for a plain name: a positional or a keyword argument
GetField(field_name, args, kwds) ==
    IF IsDigit(field_name)
    THEN IF ToInt(field_name) < Len(args)
         THEN [exc |-> None, obj |-> args[ToInt(field_name) + 1]]
         ELSE [exc |-> "IndexError"]
    ELSE IF field_name \in DOMAIN kwds
         THEN [exc |-> None, obj |-> kwds[field_name]]
         ELSE [exc |-> "KeyError"]

\* Formatter.convert_field of a string
ConvertField(obj, conversion) ==
    IF conversion \in {<<>>, <<"s">>} THEN [exc |-> None, obj |-> obj]
    ELSE IF conversion \in {<<"r">>, <<"a">>}
    THEN [exc |-> None, obj |-> <<"'">> \o obj \o <<"'">>]
    ELSE [exc |-> "ValueError"]

RECURSIVE Spaces(_)
Spaces(n) == IF n <= 0 THEN <<>> ELSE <<" ">> \o Spaces(n - 1)

\* Formatter.format_field of a string: an empty spec, a width, or a spec
\* that format() rejects
FormatField(obj, format_spec) ==
    IF format_spec = <<>> THEN [exc |-> None, text |-> obj]
    ELSE IF IsDigit(format_spec) /\ format_spec[1] # "0"
    THEN [exc |-> None, text |-> obj \o Spaces(ToInt(format_spec) - Len(obj))]
    ELSE [exc |-> "ValueError"]

\* the numbering of the fields: -1 stands for the False that manual
\* numbering sets
Numbering(field_name, auto_arg_index) ==
    IF field_name = <<>>
    THEN IF auto_arg_index = -1 THEN [exc |-> "ValueError"]
         ELSE [exc |-> None, field_name |-> Str(auto_arg_index),
               auto_arg_index |-> auto_arg_index + 1]
    ELSE IF IsDigit(field_name)
    THEN IF auto_arg_index > 0 THEN [exc |-> "ValueError"]
         ELSE [exc |-> None, field_name |-> field_name, auto_arg_index |-> -1]
    ELSE [exc |-> None, field_name |-> field_name, auto_arg_index |-> auto_arg_index]

Raised(exc) == [exc |-> exc, text |-> <<>>, auto_arg_index |-> 0]

\* _vformat; `sparse` is false for string.Formatter, which lets the
\* IndexError or KeyError of a missing argument through
RECURSIVE VFormat(_, _, _, _, _, _)
RECURSIVE VFormatEach(_, _, _, _, _, _, _)
VFormat(format_string, args, kwds, sparse, recursion_depth, auto_arg_index) ==
    IF recursion_depth < 0 THEN Raised("ValueError")
    ELSE VFormatEach(Parse(format_string, 1), args, kwds, sparse, recursion_depth,
                     auto_arg_index, <<>>)

VFormatEach(parsed, args, kwds, sparse, recursion_depth, auto_arg_index, made) ==
    IF parsed = <<>>
    THEN [exc |-> None, text |-> made, auto_arg_index |-> auto_arg_index]
    ELSE
    LET part == Head(parsed) IN
    IF part.kind = "ValueError" THEN Raised("ValueError")
    ELSE IF part.kind = "literal"
    THEN VFormatEach(Tail(parsed), args, kwds, sparse, recursion_depth, auto_arg_index,
                     made \o part.literal_text)
    ELSE
    LET numbered == Numbering(part.field_name, auto_arg_index) IN
    IF numbered.exc # None THEN Raised(numbered.exc)
    ELSE
    LET got == GetField(numbered.field_name, args, kwds) IN
    IF got.exc # None
    THEN IF ~sparse THEN Raised(got.exc)
         ELSE LET obj == part.field_name
                         \o (IF part.conversion # <<>> THEN <<"!">> \o part.conversion
                             ELSE <<>>)
                  spec == IF part.format_spec # <<>>
                          THEN VFormat(part.format_spec, args, kwds, sparse,
                                       recursion_depth, numbered.auto_arg_index)
                          ELSE [exc |-> None, text |-> <<>>,
                                auto_arg_index |-> numbered.auto_arg_index]
              IN  IF spec.exc # None THEN Raised(spec.exc)
                  ELSE VFormatEach(Tail(parsed), args, kwds, sparse, recursion_depth,
                           spec.auto_arg_index,
                           made \o <<"{">> \o obj
                                  \o (IF part.format_spec # <<>> THEN <<":">> \o spec.text
                                      ELSE <<>>)
                                  \o <<"}">>)
    ELSE LET converted == ConvertField(got.obj, part.conversion) IN
         IF converted.exc # None THEN Raised(converted.exc)
         ELSE LET spec == VFormat(part.format_spec, args, kwds, sparse,
                                  recursion_depth - 1, numbered.auto_arg_index)
              IN  IF spec.exc # None THEN Raised(spec.exc)
                  ELSE LET formatted == FormatField(converted.obj, spec.text) IN
                       IF formatted.exc # None THEN Raised(formatted.exc)
                       ELSE VFormatEach(Tail(parsed), args, kwds, sparse,
                                recursion_depth, spec.auto_arg_index,
                                made \o formatted.text)

\* SparseFormatter.vformat
SparseVFormat(format_string, args, kwds) ==
    VFormat(format_string, args, kwds, TRUE, 2, 0)

\* string.Formatter.vformat, what str.format does
StrFormat(format_string, args, kwds) ==
    VFormat(format_string, args, kwds, FALSE, 2, 0)

\* the pieces the format strings are made of
Pieces ==
    { <<"a">>,
      <<"{", "}">>,
      <<"{", "x", "}">>,
      <<"{", "y", "!", "r", "}">>,
      <<"{", "x", ":", "{", "y", "}", "}">>,
      <<"{", ":", "{", "}", "}">>,
      <<"{", "0", "}">>,
      <<"{", "x", ":", "}">>,
      <<"{", "{">>,
      <<"}", "}">>,
      <<"}">> }

RECURSIVE FormatStrings(_)
FormatStrings(n) ==
    IF n = 0 THEN {<<>>}
    ELSE LET shorter == FormatStrings(n - 1) IN
         shorter \cup {piece \o text : piece \in Pieces, text \in shorter}

\* every argument a format string of the model can ask for
AllArgs == <<<<"v">>, <<"2">>>>
AllKwargs == (<<"x">> :> <<"v">>) @@ (<<"y">> :> <<"2">>)

\* sformat(s, *args, **kwargs)
Sformat ==
    /\ UNCHANGED notCall
    /\ call.fn = "sformat"
    /\ ~result.returned
    /\ LET r == SparseVFormat(call.s, call.args, call.kwargs) IN
       result' = [returned |-> TRUE, exc |-> r.exc, text |-> r.text]
    /\ UNCHANGED <<call, log_commands, alert_user, log_channel>>

InitSformat ==
    /\ call \in {[fn |-> "sformat", s |-> text, args |-> SubSeq(AllArgs, 1, n),
                  kwargs |-> [name \in names |-> AllKwargs[name]]] :
                    text \in FormatStrings(MaxPieces), n \in 0..Len(AllArgs),
                    names \in SUBSET DOMAIN AllKwargs}
    /\ result = NotReturned
    /\ log_commands = FALSE
    /\ alert_user = FALSE
    /\ log_channel = "unset"

(***************************************************************************)
(* sanitize (utils.py:468-486).  A text is the sequence of its characters; *)
(* "LF" is the newline, "BACKSLASH" the backslash, "BACKTICK" the backtick. *)
(***************************************************************************)
\* text[start:stop], with the negative positions Python counts from the end
PySlice(text, start, stop) ==
    LET n == Len(text)
        Position(p) == IF p < 0 THEN (IF n + p < 0 THEN 0 ELSE n + p)
                       ELSE IF p > n THEN n ELSE p
    IN  SubSeq(text, Position(start) + 1, Position(stop))

\* text.startswith(old)
StartsWithText(text, old) ==
    Len(text) >= Len(old) /\ SubSeq(text, 1, Len(old)) = old

\* text.replace(old, new): the occurrences from the left, none overlapping
RECURSIVE Replace(_, _, _)
Replace(text, old, new) ==
    IF text = <<>> THEN <<>>
    ELSE IF StartsWithText(text, old)
    THEN new \o Replace(SubSeq(text, Len(old) + 1, Len(text)), old, new)
    ELSE <<Head(text)>> \o Replace(Tail(text), old, new)

TripleBacktick == <<"BACKTICK", "BACKTICK", "BACKTICK">>
Apostrophes == <<"'", "'", "'">>
Dots == <<".", ".", ".">>

\* the text after the two replacements
SanitizedText(text, replace_newline) ==
    LET sanitized_text == Replace(text, TripleBacktick, Apostrophes) IN
    IF replace_newline THEN Replace(sanitized_text, <<"LF">>, <<"BACKSLASH", "n">>)
    ELSE sanitized_text

\* sanitized_text[:limit] + "..."
CropAtEndWhole(sanitized_text, limit) ==
    PySlice(sanitized_text, 0, limit) \o Dots

\* sanitized_text[:limit - 3] + "..."
CropAtEnd(sanitized_text, limit) ==
    PySlice(sanitized_text, 0, limit - 3) \o Dots

\* "..." + sanitized_text[text_len - limit + 3:]
CropAtStart(sanitized_text, limit) ==
    LET text_len == Len(sanitized_text) IN
    Dots \o PySlice(sanitized_text, text_len - limit + 3, text_len)

\* sanitize(text, limit, crop_at_end, replace_newline)
Sanitized(text, limit, crop_at_end, replace_newline) ==
    LET sanitized_text == SanitizedText(text, replace_newline)
        text_len == Len(sanitized_text)
    IN  IF text_len > limit
        THEN IF crop_at_end THEN CropAtEnd(sanitized_text, limit)
             ELSE CropAtStart(sanitized_text, limit)
        ELSE sanitized_text

Sanitize ==
    /\ UNCHANGED notCall
    /\ call.fn = "sanitize"
    /\ ~result.returned
    /\ result' = [returned |-> TRUE,
                  text |-> Sanitized(call.text, call.limit, call.crop_at_end,
                                     call.replace_newline)]
    /\ UNCHANGED <<call, log_commands, alert_user, log_channel>>

TextChars == {"BACKTICK", "LF", "a"}

RECURSIVE Texts(_)
Texts(n) ==
    IF n = 0 THEN {<<>>}
    ELSE LET shorter == Texts(n - 1) IN
         shorter \cup {<<c>> \o text : c \in TextChars, text \in shorter}

InitSanitize ==
    /\ call \in {[fn |-> "sanitize", text |-> text, limit |-> limit,
                  crop_at_end |-> crop_at_end, replace_newline |-> replace_newline] :
                    text \in Texts(MaxText), limit \in 0..MaxLimit,
                    crop_at_end \in BOOLEAN, replace_newline \in BOOLEAN}
    /\ result = NotReturned
    /\ log_commands = FALSE
    /\ alert_user = FALSE
    /\ log_channel = "unset"

(***************************************************************************)
(* Formatter (utils.py:275-307): one record formatted by the handlers of   *)
(* a logger, one after the other.  "ESC" is the character that starts an   *)
(* ANSI escape sequence, and stands for the sequence.                      *)
(***************************************************************************)
\* record.levelname.lower(), for the level names of the model; TRACE is a
\* level an application adds
LevelNameLower ==
    [DEBUG |-> "debug", INFO |-> "info", ERROR |-> "error", TRACE |-> "trace"]

\* config.log.level_format: the text that stands for each level, in red for
\* the errors
LevelFormat ==
    [debug |-> <<"d">>, info |-> <<"i">>, error |-> <<"{", "r", "}", "e">>]

\* the levels config.log.level_format may give a format to: 'debug', that
\* format() takes as its default, is one of them
LevelFormats ==
    {[level \in {"debug"} \cup levels |-> LevelFormat[level]] :
        levels \in SUBSET {"info", "error"}}

\* config.log.format: the level and the message, after a colour or not
LogFormats ==
    { <<"{", "l", "}", "{", "m", "}">>,
      <<"{", "r", "}", "{", "l", "}", "{", "m", "}">> }

\* `_ainsi if color else {k: "" for k in _ainsi}`, with the one colour 'r'
Ainsi(color) == <<"r">> :> (IF color THEN <<"ESC">> ELSE <<>>)

\* `sformat(sformat(config.log.format, levelformat=text_format), **ainsi)`,
\* the format of the logging.Formatter of a level; 'l' is levelformat
LevelFormatter(format, text_format, color) ==
    SparseVFormat(SparseVFormat(format, <<>>, <<"l">> :> text_format).text,
                  <<>>, Ainsi(color)).text

\* `self.formatters.get(record.levelname.lower(), self.formatters['debug'])`
FormatterOf(formatters, levelname) ==
    IF LevelNameLower[levelname] \in DOMAIN formatters
    THEN formatters[LevelNameLower[levelname]]
    ELSE formatters["debug"]

\* Formatter.formatException(record.exc_info): the traceback
FormatException == <<"T">>

\* logging.Formatter.format(record), style '{': the message 'm' in the
\* format, then the traceback, that is computed and kept in record.exc_text
\* unless a text is there already
BaseFormat(record, format) ==
    LET exc_text == IF record.exc_info /\ (~record.exc_text.set \/ record.exc_text.v = <<>>)
                    THEN Some(FormatException) ELSE record.exc_text
        s == StrFormat(format, <<>>, <<"m">> :> <<"M">>).text
    IN  [output |-> IF exc_text.set /\ exc_text.v # <<>>
                    THEN s \o <<"LF">> \o exc_text.v ELSE s,
         record |-> [record EXCEPT !.exc_text = exc_text]]

\* the text of the traceback is left in the record
UncacheKeeps(exc_text) == exc_text

\* `record.exc_text = None`
Uncache(exc_text) == Absent

\* Formatter.format(record) of a Formatter built with `color`
FormatterFormat(record, format, level_format, color) ==
    LET formatters == [level \in DOMAIN level_format |->
                          LevelFormatter(format, level_format[level], color)]
        formatter == FormatterOf(formatters, record.levelname)
        coloured == IF record.exc_info /\ color
                    THEN [record EXCEPT !.exc_text =
                              Some(<<"ESC">> \o FormatException \o <<"ESC">>)]
                    ELSE record
        made == BaseFormat(coloured, formatter)
    IN  [output |-> made.output,
         record |-> [made.record EXCEPT !.exc_text = Uncache(@)]]

\* the handlers of a logger: the stream handler, with Formatter(), the file
\* handler, with Formatter(color=False), and a handler of the application
\* with a logging.Formatter of format '{m}'
Handlers == {"stream", "file", "other"}

\* the handler formats the record
HandlerFormat(handler, record, format, level_format) ==
    CASE handler = "stream" -> FormatterFormat(record, format, level_format, TRUE)
      [] handler = "file" -> FormatterFormat(record, format, level_format, FALSE)
      [] OTHER -> BaseFormat(record, <<"{", "m", "}">>)

\* Logger.callHandlers: the next handler of the logger formats the record
Format ==
    /\ UNCHANGED notCall
    /\ call.fn = "format"
    /\ ~result.returned
    /\ LET k == Len(result.outputs) + 1
           made == HandlerFormat(call.handlers[k], result.record, call.format,
                                 call.level_format)
       IN  result' = [returned |-> k = Len(call.handlers),
                      record |-> made.record,
                      outputs |-> Append(result.outputs, made.output)]
    /\ UNCHANGED <<call, log_commands, alert_user, log_channel>>

\* the orders in which one, two or three handlers are given a record
HandlerOrders ==
    {order \in UNION {[1..n -> Handlers] : n \in 1..Cardinality(Handlers)} :
        \A j, k \in 1..Len(order) : j # k => order[j] # order[k]}

\* a record that no handler has formatted yet
InitFormat ==
    /\ call \in {[fn |-> "format", handlers |-> order, format |-> format,
                  level_format |-> level_format] :
                    order \in HandlerOrders, format \in LogFormats,
                    level_format \in LevelFormats}
    /\ result \in {[returned |-> FALSE, outputs |-> <<>>,
                    record |-> [levelname |-> levelname, exc_info |-> exc_info,
                                exc_text |-> Absent]] :
                     levelname \in DOMAIN LevelNameLower, exc_info \in BOOLEAN}
    /\ log_commands = FALSE
    /\ alert_user = FALSE
    /\ log_channel = "unset"

(***************************************************************************)
(* logging_init (utils.py:310-353), called by every Bot.__init__.          *)
(***************************************************************************)
\* the loggers of the process: logging.getLogger(), the logger of the
\* package, `__name__.split(".")[0]`, and the one of discord.py
RootLogger == "root"
PackageLogger == "discore"
DiscordLogger == "discord"
Loggers == {RootLogger, PackageLogger, DiscordLogger}

\* the levels a call may ask for
LogLevels == {"INFO", "DEBUG"}

\* the arguments of a call, each one given or taken from the configuration;
\* `opens` tells whether logging.FileHandler can open the file
LoggingKwargs ==
    [log_level : LogLevels, log_stream : BOOLEAN, log_file : BOOLEAN,
     root_logger : BOOLEAN, opens : BOOLEAN]

\* the guard is left out: no call returns early
AlreadyInitializedNever(initialized) == FALSE

\* `if logging_initialized: return`
AlreadyInitialized(initialized) == initialized

\* the handlers a call creates, the n-th and next objects of the process
StreamHandler(n) == [kind |-> "stream", id |-> n]
FileHandler(n) == [kind |-> "file", id |-> n]
CreatedHandlers(kwds, n) ==
    (IF kwds.log_stream THEN <<StreamHandler(n)>> ELSE <<>>)
        \o (IF kwds.log_file
            THEN <<FileHandler(n + (IF kwds.log_stream THEN 1 ELSE 0))>> ELSE <<>>)

\* `loggers`: the root logger, or the package logger and the 'discord' one
TargetLoggers(kwds) ==
    IF kwds.root_logger THEN <<RootLogger>> ELSE <<PackageLogger, DiscordLogger>>

\* Logger.addHandler: a handler the logger has already is not added again
AddHandler(logger, handler) ==
    IF \E k \in 1..Len(logger.handlers) : logger.handlers[k] = handler THEN logger
    ELSE [logger EXCEPT !.handlers = Append(@, handler)]

RECURSIVE AddHandlers(_, _)
AddHandlers(logger, handlers) ==
    IF handlers = <<>> THEN logger
    ELSE AddHandlers(AddHandler(logger, Head(handlers)), Tail(handlers))

\* the loop over the loggers: the handlers are added, then the level is set
SetUpLoggers(loggers, kwds, handlers) ==
    [name \in Loggers |->
        IF \E k \in 1..Len(TargetLoggers(kwds)) : TargetLoggers(kwds)[k] = name
        THEN [AddHandlers(loggers[name], handlers) EXCEPT !.level = kwds.log_level]
        ELSE loggers[name]]

\* one call of logging_init(**kwargs); when the file cannot be opened the
\* call raises, after it has set logging_initialized
LoggingInit ==
    /\ UNCHANGED notCall
    /\ call.fn = "logging_init"
    /\ result.calls < MaxInitCalls
    /\ \E kwds \in LoggingKwargs :
          /\ call' = [fn |-> "logging_init", kwargs |-> kwds]
          /\ IF AlreadyInitialized(result.logging_initialized)
             THEN result' = [result EXCEPT !.calls = @ + 1, !.raised = FALSE]
             ELSE IF kwds.log_file /\ ~kwds.opens
             THEN result' = [result EXCEPT
                                !.calls = @ + 1,
                                !.raised = TRUE,
                                !.logging_initialized = TRUE,
                                !.created = @ + (IF kwds.log_stream THEN 1 ELSE 0)]
             ELSE LET handlers == CreatedHandlers(kwds, result.created + 1) IN
                  result' = [result EXCEPT
                                !.calls = @ + 1,
                                !.raised = FALSE,
                                !.logging_initialized = TRUE,
                                !.created = @ + Len(handlers),
                                !.loggers = SetUpLoggers(@, kwds, handlers)]
    /\ UNCHANGED <<log_commands, alert_user, log_channel>>

\* the arguments before the first call
NoLoggingKwargs ==
    [log_level |-> "INFO", log_stream |-> FALSE, log_file |-> FALSE,
     root_logger |-> FALSE, opens |-> TRUE]

\* the process before any Bot is made: `logging_initialized = False`, and
\* the loggers as the logging module makes them
InitLogging ==
    /\ call = [fn |-> "logging_init", kwargs |-> NoLoggingKwargs]
    /\ result = [returned |-> FALSE, calls |-> 0, raised |-> FALSE,
                 logging_initialized |-> FALSE, created |-> 0,
                 loggers |-> [name \in Loggers |->
                                 [handlers |-> <<>>,
                                  level |-> IF name = RootLogger THEN "WARNING"
                                            ELSE "NOTSET"]]]
    /\ log_commands = FALSE
    /\ alert_user = FALSE
    /\ log_channel = "unset"

(***************************************************************************)
(* Properties of the error handlers and of the locale.                     *)
(***************************************************************************)
\* Bot.handle_error, CommandTree.handle_error has run for the invocation
Handled(i, origin) ==
    /\ i.origin = origin
    /\ i.error # None
    /\ ~i.handled
    /\ i.pc \in {"done", "raised"}

Count(events, Test(_)) == Cardinality({k \in 1..Len(events) : Test(events[k])})

\* a message to the user, on the interaction or in its channel
IsResponse(e) == e.op \in {"response.send_message", "channel.send"}
IsInteractionResponse(e) == e.op = "response.send_message"
\* a reply that names the class of the error
IsClassifiedReply(e) == IsResponse(e) /\ e.key # "exception"
IsErrorLog(e) == e.op = "log" /\ e.level = "error"
IsWarningOrErrorLog(e) == e.op = "log" /\ e.level \in {"warning", "error"}
IsReport(e) == e.op = "log_channel.send"

\* the errors of C7: a check, transformer, cooldown or not-found error, and
\* the errors that are not recognised
ClassifiedAppErrors == DOMAIN TreeReplies \cup {"CommandNotFound"}
UnrecognisedAppErrors == {"CheckFailure", "AppCommandError"}

\* C7: CommandTree.handle_error gives every AppCommandError exactly one
\* outcome: a check, transformer, cooldown or not-found error gets exactly one
\* response on the interaction and no error-level log or log-channel report; a
\* CommandInvokeError or an unrecognised error gets a log of warning or error
\* level and no classified reply; no error gets both, and no error gets two
\* responses on the same interaction.
C7_OneOutcome ==
    \A p \in Procs :
        LET i == inv[p] IN
        Handled(i, "app") =>
            /\ i.error \in ClassifiedAppErrors =>
                  /\ Count(i.events, IsResponse) = 1
                  /\ Count(i.events, IsErrorLog) = 0
                  /\ Count(i.events, IsReport) = 0
            /\ i.error \in {"CommandInvokeError"} \cup UnrecognisedAppErrors =>
                  /\ Count(i.events, IsWarningOrErrorLog) >= 1
                  /\ Count(i.events, IsClassifiedReply) = 0
            /\ ~(Count(i.events, IsClassifiedReply) >= 1
                    /\ Count(i.events, IsWarningOrErrorLog) >= 1)
            /\ Count(i.events, IsInteractionResponse) <= 1

\* a message to the user
IsUserFacing(e) == e.op \in {"response.send_message", "channel.send", "reply", "send"}
\* the locale of an invocation: the one of its interaction, else the fallback
OwnLocale(i) == IF i.lang # "none" THEN i.lang ELSE FallbackLocale

\* C8: whatever the interleaving of the invocations, every error reply to a
\* user is rendered in the locale of the invocation that failed.
C8_ReplyLocale ==
    \A p \in Procs :
        \A k \in 1..Len(inv[p].events) :
            IsUserFacing(inv[p].events[k]) => inv[p].events[k].locale = OwnLocale(inv[p])

\* C9: set_locale sets the locale to the one of the interaction for a Context
\* that has one and for an Interaction, to the value of a discord.Locale, to a
\* str as it is, and to the fallback for anything else: after set_locale on the
\* context of a prefix command the locale of an earlier invocation is gone.
C9_SetLocale ==
    [][lcall'.n = lcall.n + 1 =>
        LET value == lcall'.value IN
        /\ (value.type = "Context" /\ value.lang # "none") => locale' = value.lang
        /\ value.type \in {"Interaction", "Locale", "str"} => locale' = value.lang
        /\ (value.type = "other" \/ (value.type = "Context" /\ value.lang = "none")) =>
              locale' = FallbackLocale]_vars

\* set_locale was last called on the context of a prefix command, after an
\* interaction had set another locale, and the locale is the fallback
C9_Witness ==
    /\ lcall.n >= 2
    /\ lcall.value = Value("Context", "none")
    /\ locale = FallbackLocale
    /\ \E p \in Procs :
          /\ inv[p].origin = "app"
          /\ inv[p].pc \in {"running", "done"}
          /\ inv[p].lang # FallbackLocale
    /\ \E p \in Procs : inv[p].origin = "prefix" /\ inv[p].pc = "running"

\* Cooldown.reset() on a cooldown
Reset(cd) == [cd EXCEPT !.last = 0, !.full = TRUE]

\* C11: when a command fails with an error other than CommandOnCooldown and
\* CommandNotFound, the cooldown of the invoking context (its own bucket when
\* the command has buckets) is reset if and only if its window start equals
\* its last use, in Bot.handle_error as in CommandTree.handle_error; for
\* CommandOnCooldown it is never reset.
C11_CooldownReset ==
    [][\A p \in Procs :
        LET i == inv[p] IN
        (i.pc = "failed" /\ inv'[p].pc \in {"done", "raised"} /\ ~i.handled
            /\ i.error # "CommandNotFound" /\ i.cd.set) =>
            IF i.error # "CommandOnCooldown" /\ i.cd.window = i.cd.last
            THEN inv'[p].cd = Reset(i.cd)
            ELSE inv'[p].cd = i.cd]_vars

\* C12: fallback_reply on a Context or a Message first tries reply; it calls
\* send (of the context, or of the channel of the message) if and only if reply
\* raised an HTTPException, so at most one message is delivered; any other
\* exception of reply propagates with no fallback; mention_author is False
\* unless the caller passed it.
C12_FallbackReply ==
    (call.fn = "fallback_reply" /\ result.returned /\ call.dest.type \in {"Context", "Message"}) =>
        LET made == result.calls
            send == IF call.dest.type = "Context" THEN "send" ELSE "channel.send"
            Sends == {k \in 1..Len(made) : made[k].op # "reply"}
            Delivered == {k \in 1..Len(made) : made[k].outcome = "ok"}
        IN  /\ Len(made) >= 1 /\ made[1].op = "reply"
            /\ \A k \in 2..Len(made) : made[k].op = send
            /\ Sends # {} <=> call.dest.reply = "HTTPException"
            /\ Cardinality(Sends) <= 1
            /\ Cardinality(Delivered) <= 1
            /\ call.dest.reply \notin {"ok", "HTTPException"} =>
                  result.exc = call.dest.reply /\ Len(made) = 1
            /\ \A k \in 1..Len(made) :
                  made[k].mention_author =
                      IF call.passed = "unset" THEN "False" ELSE call.passed

\* reply on a Message raised an HTTPException, the message went out by the
\* send of its channel, with mention_author False by default
C12_Witness ==
    /\ call.fn = "fallback_reply"
    /\ result.returned
    /\ call.dest.type = "Message"
    /\ call.dest.reply = "HTTPException"
    /\ call.passed = "unset"
    /\ Len(result.calls) = 2
    /\ result.calls[2].op = "channel.send"
    /\ result.calls[2].outcome = "ok"
    /\ result.calls[2].mention_author = "False"
    /\ result.exc = None

\* C13: log_data always emits the local log record before any channel send;
\* it sends exactly one message to the log channel if and only if
\* config.log.channel is set and bot.get_channel finds it; when the channel is
\* set but not found it logs an error and sends nothing; when it is unset it
\* sends nothing.
C13_LogData ==
    (call.fn = "log_data" /\ result.returned) =>
        LET ev == result.events IN
        /\ Len(ev) >= 1
        /\ ev[1] = Log(call.level, call.message)
        /\ Count(ev, IsReport) = (IF log_channel = "found" THEN 1 ELSE 0)
        /\ log_channel = "missing" =>
              \E k \in 2..Len(ev) : ev[k] = Log("error", "channel not found")

\* the files of the folder whose name ends in .py
PyFiles == {call.files[k] : k \in {j \in 1..Len(call.files) : EndsWith(call.files[j], DotPy)}}
\* the loop of _load_cogs went through the whole folder
LoopDone ==
    /\ call.isdir
    /\ result.returned
    /\ result.pos = Len(call.files)
\* two names that differ in letter case at most
SameName(n, m) == LowerName(n) = LowerName(m)

C15_Run ==
    (call.fn = "run" /\ result.returned) =>
        LET given == call.token \notin Falsy
            configured == call.config_token \notin Falsy
            made == result.super_run
        IN  /\ Len(made) <= 1
            /\ \A k \in 1..Len(made) :
                  made[k].token = IF given THEN call.token ELSE call.config_token
            /\ (~given /\ ~configured) =>
                  result.exc = "NoSpecifiedTokenError" /\ made = <<>>
            /\ (given \/ configured) => result.exc # "NoSpecifiedTokenError"
            /\ ((given \/ configured) /\ call.kwargs.log_handler = "unset") =>
                  Len(made) = 1 /\ result.exc = None

\* run was given a token while the configuration has another: the framework
\* runs with the one given
C15_Witness ==
    /\ call.fn = "run"
    /\ result.returned
    /\ call.token = "T1"
    /\ call.config_token = "T2"
    /\ Len(result.super_run) = 1
    /\ result.super_run[1].token = "T1"

\* the format string has no doubled brace
NoEscape(text) ==
    \A k \in 1..Len(Parse(text, 1)) :
        LET part == Parse(text, 1)[k] IN
        part.kind = "literal" => part.literal_text \notin {<<"{">>, <<"}">>}

\* sformat formats as str.format does when no argument is missing
AsStrFormat ==
    LET r == StrFormat(call.s, call.args, call.kwargs) IN
    r.exc \notin {"IndexError", "KeyError"} =>
        /\ result.exc = r.exc
        /\ result.text = r.text

\* a missing argument alone does not make sformat raise
NoRaiseForMissing ==
    StrFormat(call.s, AllArgs, AllKwargs).exc = None => result.exc = None

\* the fields left in the result are the fields of the missing arguments:
\* formatting the result with them gives what formatting at once gives
FieldsKept ==
    LET r == StrFormat(call.s, AllArgs, AllKwargs) IN
    (/\ r.exc = None
     /\ result.exc = None
     /\ NoEscape(call.s)
     /\ call.args \in {<<>>, AllArgs}) =>
        LET later == StrFormat(result.text,
                               IF call.args = <<>> THEN AllArgs ELSE <<>>, AllKwargs)
        IN  later.exc = None /\ later.text = r.text

\* C16: sformat substitutes the fields whose argument is supplied as
\* str.format does, leaves the fields whose argument is missing in the
\* text, with their conversion and their format spec, and never raises
\* because an argument is missing.
C16_Sformat ==
    (call.fn = "sformat" /\ result.returned) =>
        AsStrFormat /\ NoRaiseForMissing /\ FieldsKept

\* the text has three backticks in a row
HasTripleBacktick(text) ==
    \E k \in 1..Len(text) - 2 : SubSeq(text, k, k + 2) = TripleBacktick

\* C17: with a limit of 3 or more, sanitize returns a text no longer than
\* the limit and without a triple backtick; a sanitized text longer than the
\* limit comes back with exactly the length of the limit, ending with '...'
\* when cropped at the end and starting with '...' when cropped at the
\* start; a shorter one comes back whole.
C17_Sanitize ==
    (call.fn = "sanitize" /\ result.returned /\ call.limit >= 3) =>
        LET sanitized_text == SanitizedText(call.text, call.replace_newline)
            n == Len(result.text)
        IN  /\ n <= call.limit
            /\ ~HasTripleBacktick(result.text)
            /\ IF Len(sanitized_text) > call.limit
               THEN /\ n = call.limit
                    /\ call.crop_at_end => SubSeq(result.text, n - 2, n) = Dots
                    /\ ~call.crop_at_end => SubSeq(result.text, 1, 3) = Dots
               ELSE result.text = sanitized_text

\* a text with a triple backtick and a newline, longer than the limit once
\* sanitized, was cropped at the start
C17_Witness ==
    /\ call.fn = "sanitize"
    /\ result.returned
    /\ call.limit = 4
    /\ ~call.crop_at_end
    /\ call.replace_newline
    /\ call.text = <<"BACKTICK", "BACKTICK", "BACKTICK", "LF">>
    /\ result.text = <<".", ".", ".", "n">>

IsDispatchCommand(e) == e.op = "dispatch" /\ e.key = "command"
IsCompletion(e) == e.op = "dispatch" /\ e.key = "command_completion"
IsDispatchCommandError(e) == e.op = "dispatch" /\ e.key = "command_error"
IsDispatchError(e) == e.op = "call" /\ e.key = "command.dispatch_error"
IsCommandInvoke(e) == e.op = "call" /\ e.key = "command.invoke"
IsHandleError(e) == e.op = "call" /\ e.key = "handle_error"
IsLog(e) == e.op = "log"

C19_CommandNotFound ==
    /\ [](\A p \in Procs :
            LET i == inv[p] IN
            (i.origin = "prefix" /\ i.error = "CommandNotFound" /\ i.pc # "new") =>
                /\ i.pc \in {"failed", "done"}
                /\ Count(i.events, IsDispatchCommandError) = 1
                /\ Count(i.events, IsDispatchCommand) = 0
                /\ Count(i.events, IsCompletion) = 0
                /\ Count(i.events, IsUserFacing) = 0
                /\ Count(i.events, IsLog) = 0
                /\ Count(i.events, IsReport) = 0
                /\ i.exc = None)
    /\ [][\A p \in Procs :
            (inv[p].origin = "prefix" /\ inv[p].error = "CommandNotFound") =>
                inv'[p].cd = inv[p].cd]_vars

\* handle_error has returned for a CommandNotFound, with a cooldown that any
\* other error would have reset
C19_Witness ==
    \E p \in Procs :
        LET i == inv[p] IN
        /\ i.origin = "prefix"
        /\ i.error = "CommandNotFound"
        /\ i.pc = "done"
        /\ log_commands
        /\ alert_user
        /\ i.shared /\ i.cd.set /\ i.cd.window = i.cd.last /\ ~i.cd.full
        /\ Count(i.events, IsHandleError) = 1

\* C20: Bot.on_command_error calls handle_error if and only if there is no
\* extra listener of 'on_command_error', the command has no error handler and
\* its cog has none; in each of these three cases it sends no reply and
\* writes no log.
C20_OnCommandError ==
    \A p \in Procs :
        LET i == inv[p]
            listener == "listener" \in i.handlers
            command == i.error # "CommandNotFound" /\ "command" \in i.handlers
            cog == i.error # "CommandNotFound" /\ "cog" \in i.handlers
        IN  (i.origin \in {"prefix", "hybrid"} /\ i.pc \in {"done", "raised"}
                /\ i.error \notin NotCommandErrors \cup {None}) =>
                /\ Count(i.events, IsHandleError) =
                      IF ~listener /\ ~command /\ ~cog THEN 1 ELSE 0
                /\ (listener \/ command \/ cog) =>
                      /\ Count(i.events, IsUserFacing) = 0
                      /\ Count(i.events, IsLog) = 0
                      /\ Count(i.events, IsReport) = 0
                      /\ i.exc = None
                      /\ i.pc = "done"

\* a command of a cog with an error handler has failed: handle_error was not
\* called
C20_Witness ==
    \E p \in Procs :
        LET i == inv[p] IN
        /\ i.origin = "prefix"
        /\ i.error = "CommandInvokeError"
        /\ i.handlers = {"cog"}
        /\ i.pc = "done"
        /\ alert_user
        /\ Count(i.events, IsDispatchCommandError) = 1
        /\ Count(i.events, IsHandleError) = 0

IsAppCommand(e) == e.op = "dispatch" /\ e.key = "app_command"
IsAppCompletion(e) == e.op = "dispatch" /\ e.key = "app_command_completion"
IsInvokeWithNamespace(e) == e.op = "call" /\ e.key = "command._invoke_with_namespace"

\* the events come one after the other, in this order, in the events of i
InOrder(i, first, second, third) ==
    \E k \in 1..Len(i.events) - 2 :
        /\ i.events[k] = first
        /\ i.events[k + 1] = second
        /\ i.events[k + 2] = third

HasAnsi(text) == \E k \in 1..Len(text) : text[k] = "ESC"

\* the handlers that have formatted the record so far
Formatted == 1..Len(result.outputs)

\* what a Formatter built with `color` writes before the traceback, for a
\* level of config.log.level_format
Written(level, color) ==
    StrFormat(LevelFormatter(call.format, call.level_format[level], color),
              <<>>, <<"m">> :> <<"M">>).text

\* C22: when Formatter.format returns, record.exc_text is None, so that the
\* coloured traceback made for one handler is never reused by another one:
\* whatever the order of the handlers, the output of the Formatter built with
\* color=False has no ANSI escape sequence, nor has the output of another
\* handler; a record whose level has no entry in level_format is formatted
\* with the 'debug' format
C22_Format ==
    call.fn = "format" =>
        \A k \in Formatted :
            LET handler == call.handlers[k]
                output == result.outputs[k]
                level == LevelNameLower[result.record.levelname]
            IN  /\ handler \in {"stream", "file"} =>
                    /\ k = Len(result.outputs) => result.record.exc_text = Absent
                    /\ level \notin DOMAIN call.level_format
                          => SubSeq(output, 1, Len(Written("debug", handler = "stream")))
                                = Written("debug", handler = "stream")
                /\ handler \in {"file", "other"} => ~HasAnsi(output)
                /\ handler = "stream" /\ result.record.exc_info
                      => SubSeq(output, Len(output) - 2, Len(output))
                            = <<"ESC">> \o FormatException \o <<"ESC">>

\* the stream handler wrote a coloured traceback, then the file handler and
\* the handler of the application formatted the record, of a level without a
\* format of its own, and wrote the traceback without colours
C22_Witness ==
    /\ call.fn = "format"
    /\ result.returned
    /\ call.handlers = <<"stream", "file", "other">>
    /\ call.format = <<"{", "r", "}", "{", "l", "}", "{", "m", "}">>
    /\ result.record.exc_info
    /\ result.record.levelname = "TRACE"
    /\ result.outputs[1] = <<"ESC", "d", "M", "LF", "ESC", "T", "ESC">>
    /\ result.outputs[2] = <<"d", "M", "LF", "T">>
    /\ result.outputs[3] = <<"M", "LF", "T">>

\* how many handlers of a kind a logger has
HandlersOfKind(name, kind) ==
    Cardinality({k \in 1..Len(result.loggers[name].handlers) :
                    result.loggers[name].handlers[k].kind = kind})

\* the loggers a call with these arguments sets up
Targets(kwds) ==
    IF kwds.root_logger THEN {RootLogger} ELSE {PackageLogger, DiscordLogger}

\* the loggers are as the logging module makes them but for the targets of
\* the call, that have the level and one handler of each kind asked for
SetUpBy(loggers, kwds) ==
    \A name \in Loggers :
        IF name \in Targets(kwds)
        THEN /\ loggers[name].level = kwds.log_level
             /\ Len(loggers[name].handlers)
                   = (IF kwds.log_stream THEN 1 ELSE 0) + (IF kwds.log_file THEN 1 ELSE 0)
             /\ kwds.log_stream
                   <=> \E k \in 1..Len(loggers[name].handlers) :
                          loggers[name].handlers[k].kind = "stream"
             /\ kwds.log_file
                   <=> \E k \in 1..Len(loggers[name].handlers) :
                          loggers[name].handlers[k].kind = "file"
        ELSE /\ loggers[name].handlers = <<>>
             /\ loggers[name].level = (IF name = RootLogger THEN "WARNING" ELSE "NOTSET")

\* a logger has a handler at most once, and at most one of each kind
AttachedOnce ==
    \A name \in Loggers :
        /\ \A j, k \in 1..Len(result.loggers[name].handlers) :
              j # k => result.loggers[name].handlers[j] # result.loggers[name].handlers[k]
        /\ HandlersOfKind(name, "stream") <= 1
        /\ HandlersOfKind(name, "file") <= 1

\* the first call of logging_init sets up its targets, a later one changes
\* nothing
FirstCallOnly ==
    IF result.calls = 0
    THEN ~result'.raised => SetUpBy(result'.loggers, call'.kwargs)
    ELSE /\ result'.loggers = result.loggers
         /\ result'.created = result.created
         /\ result'.logging_initialized = result.logging_initialized

\* C23: across the calls of logging_init, each handler is attached to each
\* target logger at most once: the first call alone creates and attaches the
\* handlers and sets the levels, a later call changes nothing; the targets
\* are the root logger alone when root logging is asked for, the package
\* logger and the 'discord' logger otherwise
C23_LoggingInit ==
    /\ [](call.fn = "logging_init" => AttachedOnce)
    /\ [][call.fn = "logging_init" => FirstCallOnly]_vars

\* a second call, that asks for the root logger, after a first call that gave
\* the package logger and the 'discord' logger a stream and a file handler
C23_Witness ==
    /\ call.fn = "logging_init"
    /\ result.calls = 2
    /\ call.kwargs.root_logger /\ call.kwargs.log_stream
    /\ result.loggers[RootLogger].handlers = <<>>
    /\ result.loggers[PackageLogger].handlers = <<StreamHandler(1), FileHandler(2)>>
    /\ result.loggers[DiscordLogger].handlers = <<StreamHandler(1), FileHandler(2)>>
    /\ result.loggers[DiscordLogger].level = "DEBUG"

\* the originals Bot.handle_error answers or only warns about
HandledOriginals == TransientErrors \cup {"Forbidden", "NotFound"}

\* C10: for a CommandInvokeError of a prefix command that wraps none of
\* Forbidden, NotFound, ServerDisconnectedError, DiscordServerError and
\* ClientOSError, Bot.handle_error completes normally, an error-level record
\* with the Server, Command and Author of the context is logged, and with
\* config.log.alert_user the 'exception' message is sent to the user.
C10_InvokeErrorLogged ==
    \A p \in Procs :
        LET i == inv[p]
            IsRecord(e) == IsErrorLog(e) /\ e.key = "command failed"
            IsAlert(e) == IsUserFacing(e) /\ e.key = "exception"
        IN  (Handled(i, "prefix") /\ i.error = "CommandInvokeError"
                /\ i.attr \notin HandledOriginals) =>
                /\ i.pc = "done"
                /\ i.exc = None
                /\ Count(i.events, IsRecord) >= 1
                /\ alert_user => Count(i.events, IsAlert) >= 1

(***************************************************************************)
(* The specifications: one part of the program runs, the others are idle.  *)
(***************************************************************************)
IdleViewRest ==
    /\ content = <<>>
    /\ author_is_bot = FALSE
    /\ case_insensitive = FALSE
    /\ strip_after_prefix = FALSE
    /\ view = StringView(<<>>)
    /\ ctx = NoContext
    /\ vpc = "idle"
    /\ vcall = [n |-> 0, string |-> <<>>, result |-> FALSE]

IdleView == IdleViewRest /\ command_prefix = [str |-> <<>>]

\* the configuration stays as loaded
IdleConfig ==
    /\ fs = [p \in {DefaultFile} |-> Empty]
    /\ dotenv = NoValue
    /\ environ = NoValue
    /\ kwargs = Kwargs(TRUE, NoArg, NoDict)
    /\ config = Empty
    /\ loaded = TRUE
    /\ cpc = "done"
    /\ config_files = <<DefaultFile>>
    /\ idx = 2
    /\ arg = [name |-> DefaultFile, d |-> Empty]
    /\ depth = 0
    /\ ret = "for"
    /\ merged = <<<<DefaultFile>>>>
    /\ calls = 1

\* no invocation
IdleError ==
    /\ log_commands = FALSE
    /\ alert_user = FALSE
    /\ log_channel = "unset"
    /\ locale = FallbackLocale
    /\ lcall = NoCall
    /\ inv = [p \in Procs |-> NoInvocation]

\* no call
IdleCall ==
    /\ call = [fn |-> "none"]
    /\ result = [returned |-> FALSE]

InitConfig == (InitOrder \/ InitDeep \/ InitChain) /\ IdleView /\ IdleError /\ IdleCall

SpecConfig == InitConfig /\ [][NextConfig]_vars

InitFairChain == InitChain /\ IdleView /\ IdleError /\ IdleCall

\* config_init runs to its end: the interpreter keeps executing it
FairSpecChain == InitFairChain /\ [][NextConfig]_vars /\ WF_vars(NextConfig)

InitView ==
    /\ content \in SeqsUpTo(Chars, MaxContent)
    /\ author_is_bot \in BOOLEAN
    /\ command_prefix \in {[str |-> p] : p \in PrefixStrings}
                          \cup {[list |-> l] : l \in SeqsUpTo(PrefixStrings, MaxPrefixes)}
    /\ case_insensitive \in BOOLEAN
    /\ strip_after_prefix \in BOOLEAN
    /\ view = StringView(<<>>)
    /\ ctx = NoContext
    /\ vpc = "call"
    /\ vcall = [n |-> 0, string |-> <<>>, result |-> FALSE]
    /\ IdleConfig
    /\ IdleError
    /\ IdleCall

SpecView == InitView /\ [][NextView]_vars

InitErrors == InitError /\ IdleConfig /\ IdleViewRest /\ IdleCall

SpecError == InitErrors /\ [][NextError]_vars

InitReplies == InitReply /\ IdleConfig /\ IdleView /\ locale = FallbackLocale
                 /\ lcall = NoCall /\ inv = [p \in Procs |-> NoInvocation]

\* one call of fallback_reply
SpecReply == InitReplies /\ [][CallFallbackReply]_vars

InitLogDatas == InitLogData /\ IdleConfig /\ IdleView /\ locale = FallbackLocale
                  /\ lcall = NoCall /\ inv = [p \in Procs |-> NoInvocation]

\* one call of log_data
SpecLogData == InitLogDatas /\ [][CallLogData]_vars

InitLoadCogss == InitLoadCogs /\ IdleConfig /\ IdleView /\ locale = FallbackLocale
                   /\ lcall = NoCall /\ inv = [p \in Procs |-> NoInvocation]

\* one call of Bot._load_cogs
SpecLoadCogs == InitLoadCogss /\ [][LoadCogsFile \/ LoadCogsEnd]_vars

InitRuns == InitRun /\ IdleConfig /\ IdleView /\ locale = FallbackLocale
              /\ lcall = NoCall /\ inv = [p \in Procs |-> NoInvocation]

\* one call of Bot.run
SpecRun == InitRuns /\ [][BotRun]_vars

InitSformats == InitSformat /\ IdleConfig /\ IdleView /\ locale = FallbackLocale
                  /\ lcall = NoCall /\ inv = [p \in Procs |-> NoInvocation]

\* one call of sformat
SpecSformat == InitSformats /\ [][Sformat]_vars

InitSanitizes == InitSanitize /\ IdleConfig /\ IdleView /\ locale = FallbackLocale
                   /\ lcall = NoCall /\ inv = [p \in Procs |-> NoInvocation]

\* one call of sanitize
SpecSanitize == InitSanitizes /\ [][Sanitize]_vars

InitFormats == InitFormat /\ IdleConfig /\ IdleView /\ locale = FallbackLocale
                 /\ lcall = NoCall /\ inv = [p \in Procs |-> NoInvocation]

\* one record given to the handlers of a logger
SpecFormat == InitFormats /\ [][Format]_vars

InitLoggings == InitLogging /\ IdleConfig /\ IdleView /\ locale = FallbackLocale
                  /\ lcall = NoCall /\ inv = [p \in Procs |-> NoInvocation]

\* the calls of logging_init of one process
SpecLogging == InitLoggings /\ [][LoggingInit]_vars

InitLocales == InitLocale /\ IdleConfig /\ IdleViewRest /\ IdleCall

\* invocations side by side, and user code that calls set_locale
SpecLocale == InitLocales /\ [][NextLocale]_vars

\* invocations side by side, alone
SpecInvocations == InitLocales /\ [][NextError]_vars

====
